---- MODULE Spec2Model ----
(***************************************************************************)
(* A model of the todo application's data layer: TodoValidator,            *)
(* StorageManager and TodoManager.                                         *)
(*                                                                         *)
(* JavaScript values are tagged records [t |-> typeof, v |-> payload].     *)
(* A string's payload is a sequence, so that '' is <<>> for every string:  *)
(*   - a task text is a sequence of runs <<ch, n>> (the character ch       *)
(*     repeated n times), kept canonical: no empty run, no two adjacent    *)
(*     runs of the same character;                                         *)
(*   - an id is a sequence of characters;                                  *)
(*   - a timestamp is <<"iso", ms>> for the output of toISOString() at     *)
(*     ms milliseconds, <<"baddate">> for a string of the ISO shape that   *)
(*     names no date, <<"raw">> for any other non-empty string.            *)
(* A character is a one-character string, or the name of a control         *)
(* character ("TAB" = U+0009, "SOH" = U+0001).                             *)
(***************************************************************************)
EXTENDS FiniteSets, Integers, Sequences, TLC

\* ------------------------------------------------------------- bounds
\* Longest in-memory list an add may build.
MaxTodos == 2
\* Last millisecond the clock reaches.
MaxTime == 2
\* A stored text is loaded again only while it carries fewer entity escapes
\* than this: each load escapes the text once more.
MaxEscapes == 2
\* Most registrations a caller of on() makes.
MaxListeners == 3

\* ------------------------------------------------- JavaScript values
Undefined == [t |-> "undefined"]
Null == [t |-> "null"]
Bool(b) == [t |-> "boolean", v |-> b]
Str(s) == [t |-> "string", v |-> s]
Num(n) == [t |-> "number", v |-> n]
Obj(o) == [t |-> "object", v |-> o]

IsString(x) == x.t = "string"

\* ToBoolean(x): the truthiness `!x`, `x && ...`, `x || ...` test.
Truthy(x) ==
    CASE x.t = "undefined" -> FALSE
      [] x.t = "null" -> FALSE
      [] x.t = "boolean" -> x.v
      [] x.t = "string" -> x.v # <<>>
      [] x.t = "number" -> x.v # 0
      [] OTHER -> TRUE

\* a || b
OrElse(a, b) == IF Truthy(a) THEN a ELSE b

\* --------------------------------------------------------- characters
\* What String.prototype.trim removes.
IsWhitespace(ch) == ch \in {" ", "TAB"}
\* The class [\x00-\x1F\x7F].
IsControl(ch) == ch \in {"TAB", "SOH"}

\* ------------------------------------------------------ texts as runs
\* The run h before the canonical text t.
Cons(h, t) ==
    IF h[2] = 0 THEN t
    ELSE IF t # <<>> /\ Head(t)[1] = h[1]
         THEN << <<h[1], h[2] + Head(t)[2]>> >> \o Tail(t)
         ELSE <<h>> \o t

RECURSIVE Canon(_)
Canon(rs) == IF rs = <<>> THEN <<>> ELSE Cons(Head(rs), Canon(Tail(rs)))

\* The text made of the characters cs, in order.
Lit(cs) == Canon([i \in 1..Len(cs) |-> <<cs[i], 1>>])
\* The text of n copies of ch.
Rep(ch, n) == Canon(<< <<ch, n>> >>)

RECURSIVE Length(_)
Length(rs) == IF rs = <<>> THEN 0 ELSE Head(rs)[2] + Length(Tail(rs))

RECURSIVE TrimStart(_)
TrimStart(rs) ==
    IF rs # <<>> /\ IsWhitespace(Head(rs)[1]) THEN TrimStart(Tail(rs)) ELSE rs

RECURSIVE TrimEnd(_)
TrimEnd(rs) ==
    IF rs # <<>> /\ IsWhitespace(rs[Len(rs)][1])
    THEN TrimEnd(SubSeq(rs, 1, Len(rs) - 1))
    ELSE rs

\* String.prototype.trim
Trim(rs) == TrimEnd(TrimStart(rs))

\* The characters of one run.
Times1(run) == [k \in 1..run[2] |-> run[1]]

\* The ASCII letters String.prototype.toLowerCase maps, and their images.
UpperCase == <<"A", "B", "C", "D", "E", "F", "G", "H", "I", "J", "K", "L", "M",
               "N", "O", "P", "Q", "R", "S", "T", "U", "V", "W", "X", "Y", "Z">>
LowerCase == <<"a", "b", "c", "d", "e", "f", "g", "h", "i", "j", "k", "l", "m",
               "n", "o", "p", "q", "r", "s", "t", "u", "v", "w", "x", "y", "z">>

LowerChar(ch) ==
    IF \E k \in 1..Len(UpperCase) : UpperCase[k] = ch
    THEN LowerCase[CHOOSE k \in 1..Len(UpperCase) : UpperCase[k] = ch]
    ELSE ch

\* String.prototype.toLowerCase
ToLowerCase(rs) == Canon([i \in 1..Len(rs) |-> <<LowerChar(rs[i][1]), rs[i][2]>>])

\* The characters of a text, one by one.
RECURSIVE CharsOf(_)
CharsOf(rs) == IF rs = <<>> THEN <<>> ELSE Times1(Head(rs)) \o CharsOf(Tail(rs))

IncludesChars(chars, term) ==
    \E k \in 0..(Len(chars) - Len(term)) : SubSeq(chars, k + 1, k + Len(term)) = term

\* String.prototype.includes
Includes(rs, term) == IncludesChars(CharsOf(rs), CharsOf(term))

RECURSIVE Times(_, _)
Times(rs, n) == IF n = 0 THEN <<>> ELSE rs \o Times(rs, n - 1)

RECURSIVE ReplaceRuns(_, _, _)
ReplaceRuns(rs, ch, repl) ==
    IF rs = <<>> THEN <<>>
    ELSE (IF Head(rs)[1] = ch THEN Times(repl, Head(rs)[2]) ELSE <<Head(rs)>>)
         \o ReplaceRuns(Tail(rs), ch, repl)

\* String.prototype.replace(/ch/g, repl)
ReplaceAll(rs, ch, repl) == Canon(ReplaceRuns(rs, ch, repl))

\* String.prototype.replace(/[\x00-\x1F\x7F]/g, '')
StripControl(rs) == Canon(SelectSeq(rs, LAMBDA r : ~IsControl(r[1])))

RECURSIVE Take(_, _)
Take(rs, n) ==
    IF rs = <<>> \/ n = 0 THEN <<>>
    ELSE IF Head(rs)[2] >= n THEN << <<Head(rs)[1], n>> >>
         ELSE <<Head(rs)>> \o Take(Tail(rs), n - Head(rs)[2])

\* String.prototype.substring(0, n)
Substring0(rs, n) == Take(rs, n)

\* /^[^<>]*$/.test(text)
TextPatternTest(rs) == \A i \in 1..Len(rs) : rs[i][1] \notin {"<", ">"}

\* ------------------------------------------------------ TodoValidator
\* this.rules.text.minLength, this.rules.text.maxLength
MinLength == 1
MaxLength == 200

\* The outcome of a call that ends in an uncaught TypeError.
Thrown == [threw |-> TRUE]

\* String.prototype.trim() === '' for a string of either payload: a text
\* (runs) or an id (characters).
BlankRuns(rs) == Trim(rs) = <<>>
BlankChars(cs) == \A i \in 1..Len(cs) : IsWhitespace(cs[i])

\* /^[a-zA-Z0-9_-]+$/.test(id)
IdChar(ch) == ch \notin {"<", ">", "&", "!", " ", "TAB", "SOH", ";"}
IdPatternTest(cs) == cs # <<>> /\ \A i \in 1..Len(cs) : IdChar(cs[i])

\* /^\d{4}-\d{2}-\d{2}T\d{2}:\d{2}:\d{2}\.\d{3}Z$/.test(timestamp)
TimestampPatternTest(ts) == ts # <<>> /\ ts[1] \in {"iso", "baddate"}
\* !isNaN(new Date(timestamp).getTime())
IsValidDate(ts) == ts # <<>> /\ ts[1] = "iso"
\* new Date(ms).toISOString()
ToISOString(ms) == Str(<<"iso", ms>>)
\* new Date(timestamp).getTime(), for a timestamp that names a date
GetTime(x) == x.v[2]

\* sanitizeInput without its limit on the length.
KeepLength(sanitized) == sanitized

\* if (sanitized.length > maxLength) sanitized = sanitized.substring(0, maxLength)
LimitLength(sanitized) ==
    IF Length(sanitized) > MaxLength THEN Substring0(sanitized, MaxLength) ELSE sanitized

sanitizeInput(input) ==
    IF ~Truthy(input) \/ ~IsString(input) THEN <<>>
    ELSE LimitLength(
             StripControl(
                 ReplaceAll(
                     ReplaceAll(
                         ReplaceAll(
                             ReplaceAll(
                                 ReplaceAll(Trim(input.v),
                                            "&", Lit(<<"&", "a", "m", "p", ";">>)),
                                 "<", Lit(<<"&", "l", "t", ";">>)),
                             ">", Lit(<<"&", "g", "t", ";">>)),
                         "\"", Lit(<<"&", "q", "u", "o", "t", ";">>)),
                     "'", Lit(<<"&", "#", "3", "9", ";">>))))

\* { isValid: errors.length === 0, errors: errors }
Validation(errors) == [threw |-> FALSE, errors |-> errors, isValid |-> errors = <<>>]

\* { isValid: errors.length === 0, errors: errors, sanitizedText: ... }
TextValidation(errors, sanitizedText) ==
    [threw |-> FALSE, errors |-> errors, isValid |-> errors = <<>>,
     sanitizedText |-> sanitizedText]

\* validateTodoText without its rule on '<' and '>'.
validateTodoTextAnyCharacter(text) ==
    IF Truthy(text) /\ ~IsString(text) THEN Thrown
    ELSE TextValidation(
                 (IF ~Truthy(text) \/ BlankRuns(text.v) THEN <<"EmptyText">> ELSE <<>>)
              \o (IF Truthy(text) /\ Length(text.v) < MinLength THEN <<"TooShort">> ELSE <<>>)
              \o (IF Truthy(text) /\ Length(text.v) > MaxLength THEN <<"TooLong">> ELSE <<>>),
             Str(sanitizeInput(text)))

validateTodoText(text) ==
    IF Truthy(text) /\ ~IsString(text) THEN Thrown   \* text.trim is not a function
    ELSE TextValidation(
                 (IF ~Truthy(text) \/ BlankRuns(text.v) THEN <<"EmptyText">> ELSE <<>>)
              \o (IF Truthy(text) /\ Length(text.v) < MinLength THEN <<"TooShort">> ELSE <<>>)
              \o (IF Truthy(text) /\ Length(text.v) > MaxLength THEN <<"TooLong">> ELSE <<>>)
              \o (IF Truthy(text) /\ ~TextPatternTest(text.v)
                  THEN <<"IllegalCharacters">> ELSE <<>>),
             Str(sanitizeInput(text)))

validateTodoId(id) ==
    IF Truthy(id) /\ ~IsString(id) THEN Thrown       \* id.trim is not a function
    ELSE Validation(
                 (IF ~Truthy(id) \/ BlankChars(id.v) THEN <<"EmptyId">> ELSE <<>>)
              \o (IF Truthy(id) /\ ~IdPatternTest(id.v) THEN <<"BadIdFormat">> ELSE <<>>))

validateCompleted(completed) ==
    Validation(
             (IF completed.t = "undefined" THEN <<"EmptyCompleted">> ELSE <<>>)
          \o (IF completed.t # "undefined" /\ completed.t # "boolean"
              THEN <<"NotBoolean">> ELSE <<>>))

validateTimestamp(timestamp, fieldName) ==
    IF Truthy(timestamp) /\ ~IsString(timestamp) THEN Thrown
    ELSE Validation(
                 (IF ~Truthy(timestamp) THEN <<"EmptyTimestamp">> ELSE <<>>)
              \o (IF Truthy(timestamp) /\ ~TimestampPatternTest(timestamp.v)
                  THEN <<"BadTimestampFormat">> ELSE <<>>)
              \o (IF Truthy(timestamp) /\ TimestampPatternTest(timestamp.v)
                     /\ ~IsValidDate(timestamp.v)
                  THEN <<"InvalidDate">> ELSE <<>>))

\* A todo object: the five fields, each a JavaScript value.
Todo(id, text, completed, createdAt, updatedAt) ==
    [text |-> text, id |-> id, completed |-> completed,
     createdAt |-> createdAt, updatedAt |-> updatedAt]

\* An entry of a JSON list is a todo object or null.
IsObject(e) == "id" \in DOMAIN e

\* The result of validateTodoData, from the validations of the five fields:
\* text, id, completed, createdAt, updatedAt.
TodoDataValidation(todo, now, validations) ==
    IF \E k \in 1..5 : validations[k].threw
    THEN Thrown
    ELSE [threw |-> FALSE,
          errors |-> validations[1].errors \o validations[2].errors
                     \o validations[3].errors \o validations[4].errors
                     \o validations[5].errors,
          isValid |-> \A k \in 1..5 : validations[k].isValid,
          sanitizedTodo |->
              Todo(todo.id,
                   validations[1].sanitizedText,
                   OrElse(todo.completed, Bool(FALSE)),
                   OrElse(todo.createdAt, ToISOString(now)),
                   OrElse(todo.updatedAt, ToISOString(now)))]

validateTodoData(todo, now) ==
    IF ~IsObject(todo)
    THEN [threw |-> FALSE, errors |-> <<"NotAnObject">>, isValid |-> FALSE,
          sanitizedTodo |-> Null]
    ELSE TodoDataValidation(todo, now,
                            <<validateTodoText(todo.text),
                              validateTodoId(todo.id),
                              validateCompleted(todo.completed),
                              validateTimestamp(todo.createdAt, "createdAt"),
                              validateTimestamp(todo.updatedAt, "updatedAt")>>)

\* The indexes of todos whose id an earlier entry already carries.
DuplicateIndexes(todos) ==
    {i \in 1..Len(todos) :
        Truthy(todos[i].id) /\ \E j \in 1..(i - 1) : todos[j].id = todos[i].id}

\* validTodos: the sanitized todo of every entry whose validation passed.
RECURSIVE ValidTodosOf(_)
ValidTodosOf(validations) ==
    IF validations = <<>> THEN <<>>
    ELSE (IF Head(validations).isValid
          THEN <<Head(validations).sanitizedTodo>> ELSE <<>>)
         \o ValidTodosOf(Tail(validations))

\* The result of validateTodoArray, from the validation of every entry.
TodoArrayValidation(todos, validations) ==
    IF \E i \in 1..Len(todos) : validations[i].threw
    THEN Thrown
    ELSE [threw |-> FALSE,
          isValid |-> /\ DuplicateIndexes(todos) = {}
                      /\ \A i \in 1..Len(todos) : validations[i].isValid,
          duplicateIndexes |-> DuplicateIndexes(todos),
          validTodos |-> ValidTodosOf(validations)]

validateTodoArray(todos, now) ==
    IF \E i \in 1..Len(todos) : ~IsObject(todos[i])
    THEN Thrown                                     \* todo.id of null
    ELSE TodoArrayValidation(todos,
                             [i \in 1..Len(todos) |-> validateTodoData(todos[i], now)])

\* Number.prototype.toString(36) of 0..35: one digit.
Digit36(n) ==
    <<"0", "1", "2", "3", "4", "5", "6", "7", "8", "9", "a", "b", "c", "d", "e",
      "f", "g", "h", "i", "j", "k", "l", "m", "n", "o", "p", "q", "r", "s", "t",
      "u", "v", "w", "x", "y", "z">>[n + 1]

\* The outcomes of Math.random() the model draws from, as multiples of 1/36:
\* k stands for k/36, whose toString(36) is "0." followed by the digit of k.
RandomValues == {9, 18}

\* Date.now().toString(36) + Math.random().toString(36).substr(2)
generateId(now, rnd) ==
    Str(<<Digit36(now)>> \o (IF rnd = 0 THEN <<>> ELSE <<Digit36(rnd)>>))

\* createValidTodo, once the text is validated.
CreatedTodo(textValidation, now, rnd) ==
    IF textValidation.threw THEN Thrown
    ELSE IF ~textValidation.isValid
    THEN [threw |-> FALSE, errors |-> textValidation.errors, isValid |-> FALSE,
          todo |-> Null]
    ELSE [threw |-> FALSE, errors |-> <<>>, isValid |-> TRUE,
          todo |-> Todo(generateId(now, rnd), textValidation.sanitizedText,
                        Bool(FALSE), ToISOString(now), ToISOString(now))]

createValidTodo(text, now, rnd) == CreatedTodo(validateTodoText(text), now, rnd)

\* The validation of a field the loop over the fields of updates never visits.
NotVisited == [threw |-> FALSE, errors |-> <<>>, isValid |-> FALSE]

\* validateUpdates without its list of allowed fields: it takes every field
\* of updates it has no validation for as it is.
UpdatesValidationAnyField(updates, now, validations) ==
    IF validations[1].threw THEN Thrown
    ELSE LET errors == validations[1].errors \o validations[2].errors
             kept == (IF validations[1].isValid THEN {"text"} ELSE {})
                     \cup (IF validations[2].isValid THEN {"completed"} ELSE {})
                     \cup (DOMAIN updates.v \ {"text", "completed"})
             stamped == IF kept # {} THEN kept \cup {"updatedAt"} ELSE kept
         IN  [threw |-> FALSE, errors |-> errors, isValid |-> errors = <<>>,
              sanitizedUpdates |->
                  [f \in stamped |->
                      CASE f = "text" -> validations[1].sanitizedText
                        [] f = "completed" -> updates.v.completed
                        [] f = "updatedAt" -> ToISOString(now)
                        [] OTHER -> updates.v[f]]]

\* The result of validateUpdates, from the validations of text and completed.
UpdatesValidation(updates, now, validations) ==
    IF validations[1].threw THEN Thrown
    ELSE LET errors ==
                 (IF DOMAIN updates.v \ {"text", "completed"} # {}
                  THEN <<"FieldNotAllowed">> ELSE <<>>)
              \o validations[1].errors \o validations[2].errors
             kept == (IF validations[1].isValid THEN {"text"} ELSE {})
                     \cup (IF validations[2].isValid THEN {"completed"} ELSE {})
             stamped == IF kept # {} THEN kept \cup {"updatedAt"} ELSE kept
         IN  [threw |-> FALSE, errors |-> errors, isValid |-> errors = <<>>,
              sanitizedUpdates |->
                  [f \in stamped |->
                      CASE f = "text" -> validations[1].sanitizedText
                        [] f = "completed" -> updates.v.completed
                        [] OTHER -> ToISOString(now)]]

\* updates is a JavaScript value; an object's payload is a record of its
\* own enumerable fields.
validateUpdates(updates, now) ==
    IF ~Truthy(updates) \/ updates.t # "object"
    THEN [threw |-> FALSE, errors |-> <<"NotAnObject">>, isValid |-> FALSE,
          sanitizedUpdates |-> Null]
    ELSE UpdatesValidation(updates, now,
                           <<IF "text" \in DOMAIN updates.v
                             THEN validateTodoText(updates.v.text) ELSE NotVisited,
                             IF "completed" \in DOMAIN updates.v
                             THEN validateCompleted(updates.v.completed)
                             ELSE NotVisited>>)

\* ----------------------------------------------------- StorageManager
\* this.version
Version == "1.0"

\* What the store holds under this.storageKey: nothing, a text that is not
\* JSON, or the JSON text of a value.
Absent == [kind |-> "absent"]
Garbage == [kind |-> "garbage"]
\* JSON.stringify(value)
Stringify(value) == [kind |-> "json", value |-> value]
\* JSON.parse(text), for a text that is JSON
Parse(text) == text.value

\* The envelope saveTodos writes.
Envelope(todos, lastSync) == [todos |-> todos, lastSync |-> lastSync, version |-> Version]
\* data.todos && Array.isArray(data.todos), for a parsed object: the object
\* carries its todos field as todos when it is a list, and as notArray when
\* it is a value of another type.
HasTodoList(data) == "todos" \in DOMAIN data
\* A parsed value that is null or a primitive has no property to read or set.
IsJsonObject(data) == "t" \notin DOMAIN data

\* checkAvailability(): the probe's setItem returns, or throws and the catch
\* block logs a warning; nothing is dispatched.
checkAvailability(probe) == [isAvailable |-> probe = "ok", dispatched |-> <<>>]

\* save(key, data): the outcome of setItem is ok, or the name of the error
\* it throws; the in-memory fallback store never throws.
storageSave(stored, available, data, outcome) ==
    IF available /\ outcome # "ok"
    THEN [dispatched |-> <<[target |-> "document", event |-> "storage-error",
                            type |-> IF outcome = "QuotaExceededError"
                                     THEN "quota_exceeded"
                                     ELSE IF outcome = "SecurityError"
                                     THEN "security_error" ELSE "unknown_error"]>>, stored |-> stored,
          success |-> FALSE]
    ELSE [dispatched |-> <<>>, stored |-> Stringify(data), success |-> TRUE]

\* saveTodos keeping, after its todos, those the store already holds.
storageSaveTodosMerging(stored, available, todos, now, outcome) ==
    storageSave(stored, available,
                Envelope(todos \o (IF stored.kind = "json" /\ IsJsonObject(Parse(stored))
                                      /\ HasTodoList(Parse(stored))
                                   THEN Parse(stored).todos ELSE <<>>),
                         ToISOString(now)),
                outcome)

storageSaveTodos(stored, available, todos, now, outcome) ==
    storageSave(stored, available, Envelope(todos, ToISOString(now)), outcome)

\* load(key, defaultValue)
storageLoad(stored, defaultValue) ==
    IF stored.kind = "absent" THEN [data |-> defaultValue, dispatched |-> <<>>]
    ELSE IF stored.kind = "garbage"
    THEN [data |-> defaultValue,
          dispatched |-> <<[target |-> "document", event |-> "storage-error",
                            type |-> "unknown_error"]>>]
    ELSE [data |-> Parse(stored), dispatched |-> <<>>]

\* The field defaulting of loadTodos, for one entry.
Migrate(todo, now, rnd) ==
    Todo(OrElse(todo.id, generateId(now, rnd)),
         OrElse(todo.text, Str(<<>>)),
         OrElse(todo.completed, Bool(FALSE)),
         OrElse(todo.createdAt, ToISOString(now)),
         OrElse(todo.updatedAt, ToISOString(now)))

\* loadTodos(), once load() has returned.
MigrateLoaded(loaded, now, rnd) ==
    IF ~IsJsonObject(loaded.data)
    THEN [threw |-> TRUE, dispatched |-> loaded.dispatched]
    ELSE IF HasTodoList(loaded.data)
    THEN IF \E i \in 1..Len(loaded.data.todos) : ~IsObject(loaded.data.todos[i])
         THEN [threw |-> TRUE, dispatched |-> loaded.dispatched]
         ELSE [threw |-> FALSE, data |-> [loaded.data EXCEPT !.todos =
                   [i \in 1..Len(loaded.data.todos) |->
                       Migrate(loaded.data.todos[i], now, rnd)]],
               dispatched |-> loaded.dispatched]
    ELSE [threw |-> FALSE, data |-> [f \in (DOMAIN loaded.data \ {"notArray"}) \cup {"todos"} |->
                       IF f = "todos" THEN <<>> ELSE loaded.data[f]],
          dispatched |-> loaded.dispatched]

storageLoadTodos(stored, now, rnd) ==
    MigrateLoaded(storageLoad(stored, Envelope(<<>>, Null)), now, rnd)

\* JSON.stringify(data, null, 2) of what loadTodos() returned.
Exported(data) ==
    IF data.threw THEN Thrown ELSE [threw |-> FALSE, json |-> Stringify(data.data)]

\* exportData()
storageExportData(stored, now, rnd) == Exported(storageLoadTodos(stored, now, rnd))

\* The checks of importData without the one on the text of each entry.
ImportAcceptsAnyText(jsonData) ==
    /\ jsonData.kind = "json"
    /\ IsJsonObject(Parse(jsonData))
    /\ HasTodoList(Parse(jsonData))
    /\ \A i \in 1..Len(Parse(jsonData).todos) : IsObject(Parse(jsonData).todos[i])

\* The checks of importData on the parsed payload; any failure is thrown and
\* caught inside importData.
ImportAccepts(jsonData) ==
    /\ jsonData.kind = "json"
    /\ IsJsonObject(Parse(jsonData))
    /\ HasTodoList(Parse(jsonData))
    /\ \A i \in 1..Len(Parse(jsonData).todos) :
          LET todo == Parse(jsonData).todos[i]
          IN  IsObject(todo) /\ Truthy(todo.text) /\ IsString(todo.text)

storageImportData(stored, available, jsonData, now, outcome) ==
    IF ~ImportAccepts(jsonData)
    THEN [dispatched |-> <<>>, stored |-> stored, success |-> FALSE]
    ELSE storageSaveTodos(stored, available, Parse(jsonData).todos, now, outcome)

\* -------------------------------------------------------- TodoManager
VARIABLES
    isAvailable,   \* StorageManager.isAvailable, set by the probe at construction
    stored,        \* what the store in use holds under the storage key
    todos,         \* TodoManager.todos
    initialized,   \* TodoManager.initialized
    initPending,   \* what a call of initialize() awaits: the result of its
                   \* loadTodos(); undefined when no call is waiting
    now,           \* the clock, in milliseconds
    history,       \* what the instance has been through: "fresh"; "destroyed"
                   \* once destroy() was called; "reinitializing" once
                   \* initialize() was called after destroy()
    call,          \* the last call made: its name and arguments
    ret,           \* what the last call returned
    events,        \* the notifications emitted during the last call, in order
    seen,          \* for each of them, this.todos as it was emitted
    pre,           \* getAllTodos() before the last call
    preStored,     \* the store's content before the last call
    writes,        \* storage writes attempted during the last call
    returned,      \* the last call has returned and its caller has not gone on
    earlier,       \* the record of the call before the last, when the caller
                   \* kept it: the call, its result, the list before and after
    listeners,     \* TodoManager.listeners: the registrations, in order
    delivered,     \* the listeners invoked during the last call, in order,
                   \* each with the event it was invoked for
    view,          \* the TodoApp and its TodoRenderer: how far initialize()
                   \* of the app has come, whether the handlers of the add
                   \* button and the input are bound, the ids of the items
                   \* rendered in the list, each with its handlers,
                   \* pendingDeleteId, and the confirm dialog: whether it is
                   \* shown and whether it is in the document
    other          \* the TodoManager of another page over the same
                   \* localStorage: its todos, initialized, and what its
                   \* initialize() awaits

vars == <<isAvailable, stored, todos, initialized, initPending, now, history,
          call, ret, events, seen, pre, preStored, writes, returned, earlier,
          listeners, delivered, view, other>>

\* emit(event, data): the notification, with the type its data carries.
Emit(event, type) == [target |-> "manager", event |-> event, type |-> type]

\* The listener functions the model registers; this one throws when invoked.
Throws(listener) == listener = "g"

\* The listeners of ls registered for event, in the order of ls.
RECURSIVE ListenersFor(_, _)
ListenersFor(ls, event) ==
    IF ls = <<>> THEN <<>>
    ELSE (IF Head(ls).event = event THEN <<Head(ls).listener>> ELSE <<>>)
         \o ListenersFor(Tail(ls), event)

\* forEach without the try block: the first listener that throws ends it.
RECURSIVE InvokedUncaught(_)
InvokedUncaught(fns) ==
    IF fns = <<>> THEN <<>>
    ELSE IF Throws(Head(fns)) THEN <<Head(fns)>>
    ELSE <<Head(fns)>> \o InvokedUncaught(Tail(fns))

\* emit without the try block around listener(data).
emitUncaught(ls, event) ==
    [invoked |-> InvokedUncaught(ListenersFor(ls, event)),
     escaped |-> \E k \in 1..Len(ListenersFor(ls, event)) :
                    Throws(ListenersFor(ls, event)[k])]

\* emit(event, data) over the registrations ls: every listener registered
\* for the event is invoked inside a try block, so none of their exceptions
\* escapes.
emit(ls, event) == [invoked |-> ListenersFor(ls, event), escaped |-> FALSE]

\* The invocations of one emit, each with its event.
Invocations(fns, event) == [k \in 1..Len(fns) |-> [event |-> event, listener |-> fns[k]]]

\* The emits of one call, in order, those of the manager going through
\* emit: the listeners invoked, and whether an exception of one escaped
\* emit, which ends the call.
RECURSIVE Deliver(_, _)
Deliver(ls, evs) ==
    IF evs = <<>> THEN [invoked |-> <<>>, escaped |-> FALSE]
    ELSE IF Head(evs).target # "manager" THEN Deliver(ls, Tail(evs))
    ELSE IF emit(ls, Head(evs).event).escaped
    THEN [invoked |-> Invocations(emit(ls, Head(evs).event).invoked, Head(evs).event),
          escaped |-> TRUE]
    ELSE [invoked |-> Invocations(emit(ls, Head(evs).event).invoked, Head(evs).event)
                      \o Deliver(ls, Tail(evs)).invoked,
          escaped |-> Deliver(ls, Tail(evs)).escaped]

\* getAllTodos(): a copy of the list
getAllTodos == todos

\* A call that threw to its caller returns nothing.
Exception == [t |-> "exception"]

RECURSIVE InsertByCreatedAt(_, _)
InsertByCreatedAt(sorted, todo) ==
    IF sorted = <<>> THEN <<todo>>
    ELSE IF GetTime(Head(sorted).createdAt) >= GetTime(todo.createdAt)
         THEN <<Head(sorted)>> \o InsertByCreatedAt(Tail(sorted), todo)
         ELSE <<todo>> \o sorted

RECURSIVE SortByCreatedAt(_)
\* Array.prototype.sort((a, b) => new Date(b.createdAt) - new Date(a.createdAt)):
\* newest first, stable.
SortByCreatedAt(list) ==
    IF list = <<>> THEN <<>>
    ELSE InsertByCreatedAt(SortByCreatedAt(SubSeq(list, 1, Len(list) - 1)),
                           list[Len(list)])

\* What loadTodos() leaves in this.todos, what it emits and returns.
Loaded(list, success, dispatched, event, type) ==
    [todos |-> list, success |-> success, events |-> dispatched \o <<Emit(event, type)>>]

\* loadTodos(), once the list read is validated.
LoadValidated(data, validation) ==
    IF validation.threw
    THEN Loaded(<<>>, FALSE, data.dispatched, "error", "load")
    ELSE Loaded(SortByCreatedAt(validation.validTodos), TRUE, data.dispatched,
                "todos-loaded", "")

\* loadTodos(), once the StorageManager has returned the data.
LoadData(data, clock) ==
    IF data.threw
    THEN Loaded(<<>>, FALSE, data.dispatched, "error", "load")
    ELSE LoadValidated(data, validateTodoArray(data.data.todos, clock))

loadTodos(content, clock, rnd) == LoadData(storageLoadTodos(content, clock, rnd), clock)

\* saveTodos(), once the StorageManager has returned.
SaveDone(saved) ==
    [stored |-> saved.stored, success |-> saved.success,
     events |-> saved.dispatched
                \o (IF saved.success THEN <<Emit("todos-saved", "")>> ELSE <<>>)]

\* saveTodos(): the write of list, and the notification of a successful one.
saveTodos(list, outcome) ==
    SaveDone(storageSaveTodos(stored, isAvailable, list, now, outcome))

\* The index of the first todo with this id (findIndex), 0 when there is none.
FindIndex(list, id) ==
    IF \E i \in 1..Len(list) : list[i].id = id
    THEN CHOOSE i \in 1..Len(list) :
            /\ list[i].id = id
            /\ \A j \in 1..(i - 1) : list[j].id # id
    ELSE 0

\* splice(index) without its count: it removes every element from index on.
RemoveFromIndex(list, i) == SubSeq(list, 1, i - 1)

\* Array.prototype.splice(index, 1) and splice(index, 0, todo), 1-based.
RemoveAt(list, i) == SubSeq(list, 1, i - 1) \o SubSeq(list, i + 1, Len(list))
InsertAt(list, i, todo) == SubSeq(list, 1, i - 1) \o <<todo>> \o SubSeq(list, i, Len(list))

\* Object.assign(todo, source)
Assign(todo, source) ==
    [f \in DOMAIN todo |-> IF f \in DOMAIN source THEN source[f] ELSE todo[f]]

\* What a call leaves behind: the list, the store, and the record of the call.
Result(name, result, emitted, list, content, nWrites) ==
    [todos |-> list, stored |-> content, initialized |-> initialized, initPending |-> initPending,
     call |-> name, ret |-> result,
     events |-> emitted, seen |-> [i \in 1..Len(emitted) |-> list],
     writes |-> nWrites, listeners |-> listeners]

\* this.todos at each of the notifications evs: during until the k-th, after
\* from the k-th on.
SeenFrom(evs, k, during, after) ==
    [i \in 1..Len(evs) |-> IF i < k THEN during ELSE after]

\* The call returns to its caller.
Finish(result) ==
    /\ todos' = result.todos
    /\ stored' = result.stored
    /\ call' = result.call
    /\ ret' = IF Deliver(result.listeners, result.events).escaped
              THEN Exception ELSE result.ret
    /\ events' = result.events
    /\ seen' = result.seen
    /\ listeners' = result.listeners
    /\ delivered' = Deliver(result.listeners, result.events).invoked
    /\ pre' = todos
    /\ preStored' = stored
    /\ writes' = result.writes
    /\ initialized' = result.initialized
    /\ initPending' = result.initPending
    /\ returned' = TRUE

\* The events the model registers listeners for, and the listener functions:
\* f returns, g throws.
ListenedEvents == {"error", "todo-added"}
ListenerInputs == {"f", "g"}

\* The outcomes of localStorage.setItem the model draws from.
Outcomes == {"ok", "QuotaExceededError"}

Unchanged == UNCHANGED <<isAvailable, now, history, earlier, view, other>>

\* The entity escapes a text carries: each ends in ";".
RECURSIVE Escapes(_)
Escapes(rs) ==
    IF rs = <<>> THEN 0
    ELSE (IF Head(rs)[1] = ";" THEN Head(rs)[2] ELSE 0) + Escapes(Tail(rs))

\* The bound on loading: no stored text has reached MaxEscapes escapes.
Reloadable(content) ==
    (content.kind = "json" /\ IsJsonObject(Parse(content)) /\ HasTodoList(Parse(content)))
        => \A i \in 1..Len(Parse(content).todos) :
              (IsObject(Parse(content).todos[i])
                  /\ IsString(Parse(content).todos[i].text))
                 => Escapes(Parse(content).todos[i].text.v) < MaxEscapes

\* if (this.saveTodos()) { emit(event); return done } else { the rollback;
\* emit('error', { type: 'save' }); return failed }
Saved(name, saved, done, event, list, failed, rolledBack) ==
    IF saved.success
    THEN Result(name, done, saved.events \o <<Emit(event, "")>>, list, saved.stored, 1)
    ELSE [Result(name, failed, saved.events \o <<Emit("error", "save")>>,
                 rolledBack, saved.stored, 1)
             EXCEPT !.seen = SeenFrom(saved.events \o <<Emit("error", "save")>>,
                                      Len(saved.events) + 1, list, rolledBack)]

\* initialize(), once loadTodos() has run and up to the await.
InitializeLoaded(loaded) ==
    [Result([op |-> "initialize"], Undefined, loaded.events, loaded.todos, stored, 0)
        EXCEPT !.initPending = Bool(loaded.success),
               !.seen = SeenFrom(loaded.events, Len(loaded.events), todos, loaded.todos)]

initializeLoad(rnd) == InitializeLoaded(loadTodos(stored, now, rnd))

\* initialize(), resumed after the await: loadTodos() never throws, so the
\* catch block is not reached.
initializeResume ==
    [Result([op |-> "initialized", awaited |-> initPending], Bool(TRUE),
            <<Emit("initialized", "")>>, todos, stored, 0)
        EXCEPT !.initialized = TRUE, !.initPending = Undefined]

\* TodoApp.checkBrowserCompatibility(): the features other than localStorage
\* are there; localStorage counts as missing when the probe's setItem throws.
checkBrowserCompatibility(probe) == probe = "ok"

\* TodoApp.initialize(), up to the await of the manager's initialize(): when
\* the browser is not compatible it shows the error and returns false, and
\* no component is created; otherwise it creates the components and calls
\* initialize() of the manager.
appInitialize(probe, rnd) ==
    IF ~checkBrowserCompatibility(probe)
    THEN Result([probe |-> probe, op |-> "appInitialize"], Bool(FALSE), <<>>,
                todos, stored, 0)
    ELSE [initializeLoad(rnd) EXCEPT !.call = [probe |-> probe, op |-> "appInitialize"]]

\* addTodo, once createValidTodo has returned.
AddCreated(name, result, outcome) ==
    IF result.threw THEN Result(name, Exception, <<>>, todos, stored, 0)
    ELSE IF ~result.isValid
    THEN Result(name, Null, <<Emit("validation-error", "add")>>, todos, stored, 0)
    ELSE Saved(name, saveTodos(<<result.todo>> \o todos, outcome),    \* unshift
               Obj(result.todo), "todo-added", <<result.todo>> \o todos,
               Null, Tail(<<result.todo>> \o todos))                  \* shift

addTodo(text, rnd, outcome) ==
    IF ~initialized THEN Result([text |-> text, op |-> "add"], Null, <<>>, todos, stored, 0)
    ELSE AddCreated([text |-> text, op |-> "add"], createValidTodo(text, now, rnd), outcome)

\* toggleTodo setting completed to true instead of negating it.
ToggledToCompleted(list, i) ==
    [list EXCEPT ![i].completed = Bool(TRUE),
                 ![i].updatedAt = ToISOString(now)]

\* todo.completed = !todo.completed; todo.updatedAt = new Date().toISOString()
Toggled(list, i) ==
    [list EXCEPT ![i].completed = Bool(~list[i].completed.v),
                 ![i].updatedAt = ToISOString(now)]

\* The rollback of toggleTodo: todo.completed = !todo.completed
ToggledBack(list, i) == [list EXCEPT ![i].completed = Bool(~list[i].completed.v)]

\* toggleTodo, once the todo is looked up: i is its index, 0 when there is none.
ToggleFound(name, i, outcome) ==
    IF i = 0
    THEN Result(name, Bool(FALSE), <<Emit("not-found", "toggle")>>, todos, stored, 0)
    ELSE Saved(name, saveTodos(Toggled(todos, i), outcome),
               Bool(TRUE), "todo-toggled", Toggled(todos, i),
               Bool(FALSE), ToggledBack(Toggled(todos, i), i))

toggleTodo(id, outcome) ==
    IF ~initialized THEN Result([id |-> id, op |-> "toggle"], Bool(FALSE), <<>>, todos, stored, 0)
    ELSE ToggleFound([id |-> id, op |-> "toggle"], FindIndex(todos, id), outcome)

\* deleteTodo, once the todo is looked up.
DeleteFound(name, index, outcome) ==
    IF index = 0
    THEN Result(name, Bool(FALSE), <<Emit("not-found", "delete")>>, todos, stored, 0)
    ELSE Saved(name, saveTodos(RemoveAt(todos, index), outcome),
               Bool(TRUE), "todo-deleted", RemoveAt(todos, index),
               Bool(FALSE), InsertAt(RemoveAt(todos, index), index, todos[index]))

deleteTodo(id, outcome) ==
    IF ~initialized THEN Result([id |-> id, op |-> "delete"], Bool(FALSE), <<>>, todos, stored, 0)
    ELSE DeleteFound([id |-> id, op |-> "delete"], FindIndex(todos, id), outcome)

\* Object.assign(todo, validation.sanitizedUpdates), on the todo at index i.
Updated(list, i, sanitizedUpdates) ==
    [list EXCEPT ![i] = Assign(list[i], sanitizedUpdates)]

\* updateTodo, once the todo is found and the updates are validated.
UpdateValidated(name, i, validation, outcome) ==
    IF validation.threw THEN Result(name, Exception, <<>>, todos, stored, 0)
    ELSE IF ~validation.isValid
    THEN Result(name, Bool(FALSE), <<Emit("validation-error", "update")>>, todos, stored, 0)
    ELSE Saved(name, saveTodos(Updated(todos, i, validation.sanitizedUpdates), outcome),
               Bool(TRUE), "todo-updated",
               Updated(todos, i, validation.sanitizedUpdates),
               Bool(FALSE),
               Updated(Updated(todos, i, validation.sanitizedUpdates), i, todos[i]))

\* updateTodo validating the updates before it looks the todo up.
UpdateFoundValidatingFirst(name, i, updates, outcome) ==
    IF i = 0 /\ ~validateUpdates(updates, now).threw /\ validateUpdates(updates, now).isValid
    THEN Result(name, Bool(FALSE), <<Emit("not-found", "update")>>, todos, stored, 0)
    ELSE UpdateValidated(name, i, validateUpdates(updates, now), outcome)

\* updateTodo, once the todo is looked up.
UpdateFound(name, i, updates, outcome) ==
    IF i = 0
    THEN Result(name, Bool(FALSE), <<Emit("not-found", "update")>>, todos, stored, 0)
    ELSE UpdateValidated(name, i, validateUpdates(updates, now), outcome)

updateTodo(id, updates, outcome) ==
    IF ~initialized
    THEN Result([id |-> id, updates |-> updates, op |-> "update"], Bool(FALSE), <<>>,
                todos, stored, 0)
    ELSE UpdateFound([id |-> id, updates |-> updates, op |-> "update"],
                     FindIndex(todos, id), updates, outcome)

\* getCompletedTodos returning every todo.
RECURSIVE getCompletedTodosUnfiltered(_)
getCompletedTodosUnfiltered(list) ==
    IF list = <<>> THEN <<>>
    ELSE <<Head(list)>> \o getCompletedTodosUnfiltered(Tail(list))

\* this.todos.filter(todo => todo.completed)
RECURSIVE getCompletedTodos(_)
getCompletedTodos(list) ==
    IF list = <<>> THEN <<>>
    ELSE (IF Truthy(Head(list).completed) THEN <<Head(list)>> ELSE <<>>)
         \o getCompletedTodos(Tail(list))

\* this.todos.filter(todo => !todo.completed)
RECURSIVE getPendingTodos(_)
getPendingTodos(list) ==
    IF list = <<>> THEN <<>>
    ELSE (IF ~Truthy(Head(list).completed) THEN <<Head(list)>> ELSE <<>>)
         \o getPendingTodos(Tail(list))

\* Math.round(completionRate * 100) / 100, with completionRate the quotient
\* completed / total: the rate in hundredths, a half rounded up.
RoundedRate(completed, total) ==
    IF total > 0 THEN (200 * completed + total) \div (2 * total) ELSE 0

\* getStats reads the list whether or not the manager is initialized;
\* completionRate is carried in hundredths.
getStats ==
    Result([op |-> "stats"],
           Obj([completed |-> Len(getCompletedTodos(todos)),
                total |-> Len(todos),
                pending |-> Len(getPendingTodos(todos)),
                completionRate |-> RoundedRate(Len(getCompletedTodos(todos)), Len(todos))]),
           <<>>, todos, stored, 0)

\* this.todos.filter(todo => todo.text.toLowerCase().includes(searchTerm))
RECURSIVE FilterByText(_, _)
FilterByText(list, searchTerm) ==
    IF list = <<>> THEN <<>>
    ELSE (IF Includes(ToLowerCase(Head(list).text.v), searchTerm)
          THEN <<Head(list)>> ELSE <<>>)
         \o FilterByText(Tail(list), searchTerm)

\* searchTodos reads the list whether or not the manager is initialized.
searchTodos(query) ==
    IF ~Truthy(query) \/ ~IsString(query)
    THEN Result([op |-> "search", query |-> query], Obj(<<>>), <<>>, todos, stored, 0)
    ELSE Result([op |-> "search", query |-> query],
                Obj(FilterByText(todos, Trim(ToLowerCase(query.v)))),
                <<>>, todos, stored, 0)

clearAllTodos(outcome) ==
    IF ~initialized THEN Result([op |-> "clearAll"], Bool(FALSE), <<>>, todos, stored, 0)
    ELSE Saved([op |-> "clearAll"], saveTodos(<<>>, outcome),
               Bool(TRUE), "all-todos-cleared", <<>>,
               Bool(FALSE), todos)

\* One pass of the loop of batchOperation: the list it leaves, and whether
\* it counted the id as processed.
BatchStep(list, id, action) ==
    LET i == FindIndex(list, id)
    IN  IF i = 0 THEN [n |-> 0, list |-> list]
        ELSE IF action = "complete"
        THEN IF ~list[i].completed.v
             THEN [n |-> 1,
                   list |-> [list EXCEPT ![i].completed = Bool(TRUE),
                                         ![i].updatedAt = ToISOString(now)]]
             ELSE [n |-> 0, list |-> list]
        ELSE IF action = "incomplete"
        THEN IF list[i].completed.v
             THEN [n |-> 1,
                   list |-> [list EXCEPT ![i].completed = Bool(FALSE),
                                         ![i].updatedAt = ToISOString(now)]]
             ELSE [n |-> 0, list |-> list]
        ELSE [n |-> 1, list |-> RemoveAt(list, i)]

\* The loop of batchOperation over ids, from a list and a count: the list it
\* leaves and the count of the ids processed.
RECURSIVE BatchApply(_, _, _, _)
BatchApply(list, ids, action, processed) ==
    IF ids = <<>> THEN [list |-> list, processed |-> processed]
    ELSE BatchApply(BatchStep(list, Head(ids), action).list, Tail(ids), action,
                    processed + BatchStep(list, Head(ids), action).n)

\* this.todos = originalTodos: originalTodos is a shallow copy, so it holds
\* the same todo objects the loop assigned to; it restores which todos are in
\* the list and their order, with the field values the loop left in them.
RestoreOriginal(original, applied, action) ==
    IF action = "delete" THEN original ELSE applied

BatchResult(success, processed) ==
    Obj([success |-> success, processed |-> processed])

\* batchOperation, once the loop over ids has run.
BatchApplied(name, action, applied, outcome) ==
    IF applied.processed = 0
    THEN Result(name, BatchResult(FALSE, 0), <<Emit("error", "save")>>,
                RestoreOriginal(todos, applied.list, action), stored, 0)
    ELSE Saved(name, saveTodos(applied.list, outcome),
               BatchResult(TRUE, applied.processed), "batch-operation", applied.list,
               BatchResult(FALSE, 0), RestoreOriginal(todos, applied.list, action))

\* ids is a JavaScript value: a list is an object whose payload is a sequence.
batchOperation(ids, action, outcome) ==
    IF \/ ~initialized
       \/ ids.t # "object" \/ ids.v = <<>>
       \/ action \notin {"delete", "complete", "incomplete"}
    THEN Result([op |-> "batch", action |-> action, ids |-> ids],
                BatchResult(FALSE, 0), <<>>, todos, stored, 0)
    ELSE BatchApplied([op |-> "batch", action |-> action, ids |-> ids], action,
                      BatchApply(todos, ids.v, action, 0), outcome)

\* importData, once the write has succeeded and loadTodos() has run.
ImportLoaded(name, imported, loaded) ==
    [Result(name, Bool(TRUE),
            imported.dispatched \o loaded.events \o <<Emit("data-imported", "")>>,
            loaded.todos, imported.stored, 1)
        EXCEPT !.seen = SeenFrom(imported.dispatched \o loaded.events
                                     \o <<Emit("data-imported", "")>>,
                                 Len(imported.dispatched) + Len(loaded.events),
                                 todos, loaded.todos)]

\* importData, once the StorageManager has returned.
Imported(name, jsonData, imported, rnd) ==
    IF imported.success
    THEN ImportLoaded(name, imported, loadTodos(imported.stored, now, rnd))
    ELSE Result(name, Bool(FALSE), imported.dispatched, todos, stored,
                IF ImportAccepts(jsonData) THEN 1 ELSE 0)

\* importData(jsonData): no check of this.initialized.
importData(name, jsonData, rnd, outcome) ==
    Imported(name, jsonData,
             storageImportData(stored, isAvailable, jsonData, now, outcome), rnd)

\* importData(exportData()), once exportData() has returned.
ImportExport(name, exported, rnd, outcome) ==
    IF exported.threw THEN Result(name, Exception, <<>>, todos, stored, 0)
    ELSE importData(name, exported.json, rnd, outcome)

\* importData(exportData())
importExported(rndExport, rnd, outcome) ==
    ImportExport([op |-> "import", exported |-> TRUE],
                 storageExportData(stored, now, rndExport), rnd, outcome)

\* destroy() without this.initialized = false.
destroyKeepingReady ==
    [Result([op |-> "destroy"], Undefined, <<Emit("destroyed", "")>>, <<>>, stored, 0)
        EXCEPT !.listeners = <<>>]

\* destroy(): the listeners are dropped before 'destroyed' is emitted.
destroy ==
    [Result([op |-> "destroy"], Undefined, <<Emit("destroyed", "")>>, <<>>, stored, 0)
        EXCEPT !.initialized = FALSE, !.listeners = <<>>]

\* ------------------------------------------------------------ inputs
TextA == Str(Lit(<<"a">>))
TextAmp == Str(Lit(<<"a", "&", "b">>))
TextMax == Str(Rep("a", MaxLength))
TextPadded == Str(Lit(<<" ", "a", "TAB">>))
TextTooLong == Str(Rep("a", MaxLength + 1))
TextEmpty == Str(<<>>)
TextBlank == Str(Rep(" ", 2))
TextScript == Str(Lit(<<"<", "s", ">">>))
TextGreater == Str(Lit(<<"a", ">", "b">>))
TextControl == Str(Lit(<<"SOH">>))
TextB == Str(Lit(<<"b">>))
\* The texts of add in SpecQuery.
BuyMilk == Str(Lit(<<"B", "u", "y", " ", "m", "i", "l", "k">>))
WalkDog == Str(Lit(<<"W", "a", "l", "k", " ", "d", "o", "g">>))
QueryTexts == {BuyMilk, WalkDog}
\* The queries of search: a word of one text, in lower and in upper case; a
\* letter of both texts; a word of neither; a word followed by a space; two
\* spaces; the empty text; a number; nothing.
Milk == Str(Lit(<<"m", "i", "l", "k">>))
QueryInputs ==
    {Undefined, Str(<<>>), Str(Lit(<<"k">>)), Str(Lit(<<" ", " ">>)), Str(Lit(<<"c", "a", "t">>)),
     Milk, Str(Lit(<<"M", "I", "L", "K">>)),
     Str(Lit(<<"m", "i", "l", "k", " ">>)), Num(7)}

\* The texts of add in Spec: one that is accepted and one that is not.
TextInputs == {TextA, TextBlank}
\* The texts of add in SpecText. Accepted: one of the greatest length, one
\* with a character that is escaped, one that is trimmed, one that is a
\* control character. Not accepted: the empty text, a blank one, one too
\* long, two with an angle bracket.
RichTexts ==
    {TextEmpty, TextMax, TextTooLong,
     TextBlank, TextControl, TextScript, TextGreater, TextAmp, TextPadded}

\* The texts of add and of update in SpecTrim: one character after more
\* spaces than the greatest length; one character between whitespace; a
\* text of the greatest length.
TextPaddedLong == Str(Rep(" ", MaxLength) \o Lit(<<"a">>))
PaddedTexts == {TextMax, TextPaddedLong, TextPadded}
PaddedUpdates == {Obj([text |-> TextPaddedLong]), Obj([text |-> TextPadded])}

\* An id no todo carries.
UnknownId == Str(<<"z">>)
IdInputs == {todos[i].id : i \in 1..Len(todos)} \cup {UnknownId}

\* The updates of update in Spec: a field that is allowed, one that is not,
\* and no object at all.
UpdateInputs ==
    {Null, Obj([completed |-> Bool(TRUE)]),
     Obj([id |-> UnknownId, completed |-> Bool(TRUE)])}
\* The updates of update in SpecEdit: a completed flag; a field that
\* is not allowed beside one that is; no object; a text that is a number; a
\* text with an angle bracket; a completed flag that is a string; a text
\* that is accepted beside a completed flag that is a number.
EditPatches ==
    {Null,
     Obj([text |-> TextScript]), Obj([text |-> Num(7)]),
     Obj([completed |-> Bool(TRUE)]), Obj([completed |-> TextA]),
     Obj([text |-> TextB, completed |-> Num(1)]), Obj([id |-> UnknownId, completed |-> Bool(TRUE)])}
\* The updates of update in SpecText: a text that is accepted and one that is not.
TextUpdates == {Obj([text |-> TextScript]), Obj([text |-> TextAmp])}

\* The ids of the list, in order.
AllIds == [i \in 1..Len(todos) |-> todos[i].id]
\* The calls of batchOperation: each action on every id of the list, in
\* order; an id no todo carries; an action that is none of the three; an
\* empty list of ids.
BatchInputs ==
    ({Obj(AllIds)} \X {"delete", "complete", "incomplete"})
    \cup {<<Obj(<<UnknownId>>), "complete">>, <<Obj(AllIds), "archive">>,
          <<Obj(<<>>), "delete">>}

\* A store a session of an earlier day left behind: one completed todo.
EarlierTodo == Todo(Str(<<"0", "i">>), TextA, Bool(TRUE), ToISOString(0), ToISOString(0))
EarlierStore == Stringify(Envelope(<<EarlierTodo>>, ToISOString(0)))
\* What the key may hold when the application starts.
InitialStores == {Absent, Garbage, Stringify(Null), EarlierStore}

\* Lists found under the key: two valid todos, the older first; two todos
\* with one id, the second completed; a todo whose createdAt is no timestamp
\* before a valid one; a valid todo before null; a valid todo before one
\* whose text is a number.
TwoValidStore ==
    Stringify(Envelope(<<Todo(Str(<<"x">>), TextA, Bool(FALSE), ToISOString(0), ToISOString(0)),
                         Todo(Str(<<"y">>), TextA, Bool(FALSE), ToISOString(1), ToISOString(1))>>,
                       Null))
SameIdStore ==
    Stringify(Envelope(<<Todo(Str(<<"x">>), TextA, Bool(FALSE), ToISOString(0), ToISOString(0)),
                         Todo(Str(<<"x">>), TextA, Bool(TRUE), ToISOString(0), ToISOString(0))>>,
                       Null))

\* Payloads of importData: two todos with one id; a todo whose createdAt is
\* no timestamp before a todo of a device whose clock is ahead; a text that
\* is not JSON.
ForeignTodo(id, createdAt) == Todo(Str(<<id>>), TextA, Bool(FALSE), createdAt, createdAt)
DuplicatePayload ==
    Stringify(Envelope(<<ForeignTodo("x", ToISOString(0)),
                         ForeignTodo("x", ToISOString(0))>>, Null))
MixedPayload ==
    Stringify(Envelope(<<ForeignTodo("y", Str(<<"raw">>)),
                         ForeignTodo("x", ToISOString(9))>>, Null))
ImportPayloads == {Garbage, DuplicatePayload, MixedPayload}

\* Payloads importData does not accept: a text that is not JSON; the JSON
\* text null; an object without todos; an object whose todos is a string; a
\* list whose second entry has an empty text, a number for its text, no text,
\* or is null.
NoListPayload == Stringify([version |-> Version])
NotAListPayload == Stringify([version |-> Version, notArray |-> TextA])
EntryPayload(entry) == Stringify(Envelope(<<ForeignTodo("x", ToISOString(0)), entry>>, Null))
EmptyTextPayload ==
    EntryPayload([ForeignTodo("y", ToISOString(0)) EXCEPT !.text = Str(<<>>)])
NumberTextPayload ==
    EntryPayload([ForeignTodo("y", ToISOString(0)) EXCEPT !.text = Num(7)])
NoTextPayload ==
    EntryPayload([ForeignTodo("y", ToISOString(0)) EXCEPT !.text = Undefined])
NullEntryPayload == EntryPayload(Null)
RejectedPayloads ==
    {Garbage, Stringify(Null), NoListPayload, NotAListPayload,
     NullEntryPayload, NoTextPayload, EmptyTextPayload, NumberTextPayload}
LoadStores ==
    {NullEntryPayload, SameIdStore, TwoValidStore, NumberTextPayload, MixedPayload}

\* The texts of SpecLimit: one of the greatest length whose last character
\* is escaped; with it, as texts of add and update, one of the greatest
\* length, one too long and one with angle brackets; and lists that hold,
\* after a valid todo, a todo with one of these texts, as another program
\* may leave them under the key or in a file to import.
TextMaxAmp == Str(Rep("a", MaxLength - 1) \o Lit(<<"&">>))
LimitTexts == {TextMax, TextTooLong, TextMaxAmp, TextScript}
LimitUpdates == {Obj([text |-> TextMaxAmp]), Obj([text |-> TextScript])}
TextPayload(text) == EntryPayload([ForeignTodo("y", ToISOString(0)) EXCEPT !.text = text])
LimitPayloads == {TextPayload(TextTooLong), TextPayload(TextMaxAmp), TextPayload(TextScript)}

\* The payloads of importData in SpecImport: those it does not accept, and
\* one it accepts.
ImportInputs ==
    {Garbage, Stringify(Null), NoListPayload, NotAListPayload,
     NullEntryPayload, NoTextPayload, EmptyTextPayload, DuplicatePayload,
     NumberTextPayload}

\* The outcomes of a write: the in-memory fallback store never throws.
WriteOutcomes == IF isAvailable THEN Outcomes ELSE {"ok"}
\* The values a call draws from Math.random(), when it calls it at all.
RandomDraws(calls) == IF calls THEN RandomValues ELSE {CHOOSE rnd \in RandomValues : TRUE}
\* loadTodos() of the StorageManager draws an id for an entry that has none.
LoadDraws(content) ==
    RandomDraws(/\ content.kind = "json"
                /\ IsJsonObject(Parse(content))
                /\ HasTodoList(Parse(content))
                /\ \E i \in 1..Len(Parse(content).todos) :
                      /\ IsObject(Parse(content).todos[i])
                      /\ ~Truthy(Parse(content).todos[i].id))

\* ------------------------------------------------------ specification
\* The caller has kept no record of a call.
NoRecord == [todos |-> <<>>, call |-> [op |-> "none"], ret |-> Undefined, pre |-> <<>>]

\* The page is loaded: no TodoApp has run, nothing is bound or rendered,
\* and there is no confirm dialog.
NoView ==
    [app |-> "new", bound |-> FALSE, items |-> <<>>, pendingDeleteId |-> Undefined,
     dialog |-> "none", attached |-> FALSE]

\* The TodoManager of the other page, as constructed.
NoOther == [todos |-> <<>>, initialized |-> FALSE, initPending |-> Undefined]

\* What the probe's setItem does when the StorageManager is constructed.
ProbeOutcomes == {"ok", "SecurityError"}

\* The state after construction, the key holding one of stores when
\* localStorage is available.
InitWith(stores) ==
    /\ \E probe \in ProbeOutcomes :
          /\ isAvailable = checkAvailability(probe).isAvailable
          /\ events = checkAvailability(probe).dispatched
    /\ stored \in (IF isAvailable THEN stores ELSE {Absent})
    /\ todos = <<>>
    /\ initialized = FALSE
    /\ initPending = Undefined
    /\ now = 1
    /\ history = "fresh"
    /\ call = [op |-> "new"]
    /\ ret = Undefined
    /\ seen = <<>>
    /\ pre = <<>>
    /\ preStored = Absent
    /\ writes = 0
    /\ returned = FALSE
    /\ earlier = NoRecord
    /\ listeners = <<>>
    /\ delivered = <<>>
    /\ view = NoView
    /\ other = NoOther

Init == InitWith(InitialStores)

\* The application starts over a list another session or another program
\* left under the key.
InitLoad == InitWith(LoadStores)

\* initialize() is called, with no earlier call of it still waiting.
Initialize ==
    /\ ~returned
    /\ initPending = Undefined
    /\ Reloadable(stored)
    /\ \E rnd \in LoadDraws(stored) : Finish(initializeLoad(rnd))
    /\ history' = IF history = "destroyed" THEN "reinitializing" ELSE history
    /\ UNCHANGED <<isAvailable, now, earlier, view, other>>

\* The call of initialize() that waits goes on after its await.
InitializeResume ==
    /\ ~returned
    /\ initPending # Undefined
    /\ Finish(initializeResume)
    /\ Unchanged

\* initialize() of the TodoApp is called, on a page just loaded.
AppInitialize ==
    /\ ~returned
    /\ ~initialized
    /\ initPending = Undefined
    /\ Reloadable(stored)
    /\ view.app \in {"failed", "new"}
    /\ \E probe \in ProbeOutcomes, rnd \in LoadDraws(stored) :
          /\ Finish(appInitialize(probe, rnd))
          /\ view' = [view EXCEPT !.app = IF checkBrowserCompatibility(probe)
                                          THEN "awaiting" ELSE "failed"]
    /\ UNCHANGED <<isAvailable, now, history, earlier, other>>

\* The validation lets the call go on to its write.
Accepted(validation) == ~validation.threw /\ validation.isValid

AddTodo(texts) ==
    /\ ~returned
    /\ \E text \in texts :
          \E writing \in {initialized /\ Accepted(validateTodoText(text))} :
             /\ writing => Len(todos) < MaxTodos
             /\ \E rnd \in RandomDraws(writing),
                   outcome \in (IF writing THEN WriteOutcomes ELSE {"ok"}) :
                      Finish(addTodo(text, rnd, outcome))
    /\ Unchanged

ToggleTodo ==
    /\ ~returned
    /\ \E id \in IdInputs, outcome \in WriteOutcomes : Finish(toggleTodo(id, outcome))
    /\ Unchanged

DeleteTodo ==
    /\ ~returned
    /\ \E id \in IdInputs, outcome \in WriteOutcomes : Finish(deleteTodo(id, outcome))
    /\ Unchanged

UpdateTodo(patches) ==
    /\ ~returned
    /\ \E id \in IdInputs, updates \in patches, outcome \in WriteOutcomes :
          Finish(updateTodo(id, updates, outcome))
    /\ Unchanged

ClearAllTodos ==
    /\ ~returned
    /\ \E outcome \in WriteOutcomes : Finish(clearAllTodos(outcome))
    /\ Unchanged

BatchOperation ==
    /\ ~returned
    /\ \E input \in BatchInputs, outcome \in WriteOutcomes :
          Finish(batchOperation(input[1], input[2], outcome))
    /\ Unchanged

\* The call returns, having loaded only what the bound on loading allows.
FinishImport(result) ==
    /\ result.ret = Bool(TRUE) => Reloadable(result.stored)
    /\ Finish(result)

ImportData(payloads) ==
    /\ ~returned
    /\ \E jsonData \in payloads, outcome \in WriteOutcomes :
          \E rnd \in RandomDraws(FALSE) :
             FinishImport(importData([jsonData |-> jsonData, op |-> "import",
                                      exported |-> FALSE],
                                     jsonData, rnd, outcome))
    /\ Unchanged

ImportExported ==
    /\ ~returned
    /\ \E outcome \in WriteOutcomes :
          \E rndExport \in LoadDraws(stored), rnd \in RandomDraws(FALSE) :
             FinishImport(importExported(rndExport, rnd, outcome))
    /\ Unchanged

Destroy ==
    /\ ~returned
    /\ Finish(destroy)
    /\ history' = "destroyed"
    /\ UNCHANGED <<isAvailable, now, earlier, view, other>>

\* The caller has taken the result of the last call and goes on.
Continue ==
    /\ returned
    /\ returned' = FALSE
    /\ call' = [op |-> "none"]
    /\ ret' = Undefined
    /\ events' = <<>>
    /\ seen' = <<>>
    /\ pre' = <<>>
    /\ preStored' = Absent
    /\ writes' = 0
    /\ earlier' = NoRecord
    /\ delivered' = <<>>
    /\ UNCHANGED <<isAvailable, stored, todos, initialized, initPending, now, history,
                   listeners, view, other>>

SearchTodos ==
    /\ ~returned
    /\ \E query \in QueryInputs : Finish(searchTodos(query))
    /\ Unchanged

GetStats ==
    /\ ~returned
    /\ Finish(getStats)
    /\ Unchanged

\* The caller of toggle goes on and keeps the record of the call.
Remember ==
    /\ returned
    /\ call.op = "toggle"
    /\ earlier' = [todos |-> todos, call |-> call, ret |-> ret, pre |-> pre]
    /\ returned' = FALSE
    /\ call' = [op |-> "none"]
    /\ ret' = Undefined
    /\ events' = <<>>
    /\ seen' = <<>>
    /\ pre' = <<>>
    /\ preStored' = Absent
    /\ writes' = 0
    /\ delivered' = <<>>
    /\ UNCHANGED <<isAvailable, stored, todos, initialized, initPending, now, history,
                   listeners, view, other>>

\* The clock advances between calls.
Tick ==
    /\ ~returned
    /\ now < MaxTime
    /\ now' = now + 1
    /\ UNCHANGED <<isAvailable, stored, todos, initialized, initPending, history,
                   call, ret, events, seen, pre, preStored, writes, returned, earlier,
                   listeners, delivered, view, other>>

\* on(event, listener)
On ==
    /\ ~returned
    /\ Len(listeners) < MaxListeners
    /\ \E event \in ListenedEvents, listener \in ListenerInputs :
          listeners' = Append(listeners, [event |-> event, listener |-> listener])
    /\ UNCHANGED <<isAvailable, stored, todos, initialized, initPending, now, history,
                   call, ret, events, seen, pre, preStored, writes, returned, earlier,
                   delivered, view, other>>

\* this.listeners.filter(l => !(l.event === event && l.listener === listener))
RECURSIVE Without(_, _, _)
Without(ls, event, listener) ==
    IF ls = <<>> THEN <<>>
    ELSE (IF Head(ls).event = event /\ Head(ls).listener = listener
          THEN <<>> ELSE <<Head(ls)>>)
         \o Without(Tail(ls), event, listener)

\* off(event, listener), for a listener that is registered
Off ==
    /\ ~returned
    /\ \E k \in 1..Len(listeners) :
          listeners' = Without(listeners, listeners[k].event, listeners[k].listener)
    /\ UNCHANGED <<isAvailable, stored, todos, initialized, initPending, now, history,
                   call, ret, events, seen, pre, preStored, writes, returned, earlier,
                   delivered, view, other>>

\* The next call is made on the TodoManager of the other page: the two keep
\* their own todos and initialized and share what localStorage holds.
Switch ==
    /\ ~returned
    /\ isAvailable
    /\ todos' = other.todos
    /\ initialized' = other.initialized
    /\ initPending' = other.initPending
    /\ other' = [todos |-> todos, initialized |-> initialized, initPending |-> initPending]
    /\ UNCHANGED <<isAvailable, stored, now, history, call, ret, events, seen, pre,
                   preStored, writes, returned, earlier, listeners, delivered, view>>

\* ------------------------------------------------------------ the view
\* TodoRenderer.setupEventListeners(): its registrations, in order.
RendererListeners ==
    <<[event |-> "todo-added", listener |-> "render"],
      [event |-> "todo-toggled", listener |-> "render"],
      [event |-> "todo-deleted", listener |-> "render"],
      [event |-> "todo-updated", listener |-> "render"],
      [event |-> "todos-loaded", listener |-> "render"],
      [event |-> "all-todos-cleared", listener |-> "render"],
      [event |-> "batch-operation", listener |-> "render"],
      [event |-> "validation-error", listener |-> "showError"],
      [event |-> "error", listener |-> "showSaveError"]>>

\* TodoApp.setupComponentEvents(): its registrations with the manager.
AppListeners ==
    <<[event |-> "error", listener |-> "notifyError"],
      [event |-> "validation-error", listener |-> "showFirstError"],
      [event |-> "todo-added", listener |-> "notifyAdded"],
      [event |-> "todo-deleted", listener |-> "notifyDeleted"]>>

\* renderTodoList(): one item for each todo of the list, in order, each with
\* the handlers of its checkbox and its delete button, which carry its id.
ItemsOf(list) == [i \in 1..Len(list) |-> list[i].id]

\* The notifications of a call at which a listener that renders is invoked.
RenderPoints(result) ==
    {i \in 1..Len(result.events) :
        /\ result.events[i].target = "manager"
        /\ \E k \in 1..Len(result.listeners) :
              result.listeners[k] = [event |-> result.events[i].event, listener |-> "render"]}

\* The items in the list after a call: those of the last render() its
\* notifications caused, on this.todos as it then was.
Rendered(result, items) ==
    IF RenderPoints(result) = {} THEN items
    ELSE ItemsOf(result.seen[CHOOSE i \in RenderPoints(result) :
                                \A j \in RenderPoints(result) : j <= i])

\* TodoRenderer.initialize(): bindEvents(), createConfirmDialog(), render().
rendererInitialize(v, list) ==
    [v EXCEPT !.bound = TRUE, !.dialog = "hidden", !.attached = TRUE,
              !.items = ItemsOf(list)]

\* TodoRenderer.destroy(): the handlers of the add button and the input are
\* removed and the dialog is taken out of the document; the items of the
\* list stay where they are.
rendererDestroy(v) == [v EXCEPT !.bound = FALSE, !.attached = FALSE]

\* showConfirmDialog()
showConfirmDialog(v) ==
    [v EXCEPT !.dialog = IF v.dialog = "none" THEN "none" ELSE "shown"]

\* hideConfirmDialog() without this.pendingDeleteId = null.
hideConfirmDialogKeepingId(v) ==
    [v EXCEPT !.dialog = IF v.dialog = "none" THEN "none" ELSE "hidden"]

\* hideConfirmDialog()
hideConfirmDialog(v) ==
    [v EXCEPT !.dialog = IF v.dialog = "none" THEN "none" ELSE "hidden",
              !.pendingDeleteId = Null]

\* handleDeleteTodo(id)
handleDeleteTodo(v, id) == showConfirmDialog([v EXCEPT !.pendingDeleteId = id])

\* TodoApp.initialize(), resumed after the await of the manager's
\* initialize(): the renderer is created and initialized, then the app
\* registers its listeners.
appResume(managerInitialized) ==
    IF ~managerInitialized
    THEN Result([op |-> "appInitialized"], Bool(FALSE), <<>>, todos, stored, 0)
    ELSE [Result([op |-> "appInitialized"], Bool(TRUE), <<>>, todos, stored, 0)
             EXCEPT !.listeners = listeners \o RendererListeners \o AppListeners]

\* A call made by a handler of the view returns; v is the view as the
\* handler leaves it, but for the items the listeners have rendered.
ViewFinish(result, v) ==
    /\ Finish(result)
    /\ view' = [v EXCEPT !.items = Rendered(result, v.items)]
    /\ UNCHANGED <<isAvailable, now, history, earlier, other>>

\* A handler of the view that calls nothing of the manager returns.
ViewOnly(name, v) ==
    /\ Finish(Result(name, Undefined, <<>>, todos, stored, 0))
    /\ view' = v
    /\ UNCHANGED <<isAvailable, now, history, earlier, other>>

\* The texts the user types into the input.
TypedTexts == {TextA, TextBlank, TextPadded}

AppResume ==
    /\ ~returned
    /\ view.app = "awaiting"
    /\ initPending = Undefined
    /\ Finish(appResume(initialized))
    /\ view' = IF initialized
               THEN [rendererInitialize(view, todos) EXCEPT !.app = "ready"]
               ELSE [view EXCEPT !.app = "failed"]
    /\ UNCHANGED <<isAvailable, now, history, earlier, other>>

\* A click on the add button, or Enter in the input: handleAddTodo().
ClickAdd ==
    /\ ~returned
    /\ view.bound
    /\ \E typed \in TypedTexts :
          /\ Trim(typed.v) # <<>>
          /\ \E writing \in {initialized /\ Accepted(validateTodoText(Str(Trim(typed.v))))} :
                /\ writing => Len(todos) < MaxTodos
                /\ \E rnd \in RandomDraws(writing),
                      outcome \in (IF writing THEN WriteOutcomes ELSE {"ok"}) :
                         ViewFinish([addTodo(Str(Trim(typed.v)), rnd, outcome)
                                        EXCEPT !.call = [input |-> "click", text |-> Str(Trim(typed.v)),
                                                         op |-> "add"]],
                                    view)

\* A click on the checkbox of an item: handleToggleTodo(id).
ClickToggle ==
    /\ ~returned
    /\ \E k \in 1..Len(view.items), outcome \in WriteOutcomes :
          ViewFinish([toggleTodo(view.items[k], outcome)
                         EXCEPT !.call = [input |-> "click", id |-> view.items[k],
                                          op |-> "toggle"]],
                     view)

\* A click on the delete button of an item: handleDeleteTodo(id).
ClickDelete ==
    /\ ~returned
    /\ \E k \in 1..Len(view.items) :
          ViewOnly([id |-> view.items[k], op |-> "clickDelete"],
                   handleDeleteTodo(view, view.items[k]))

\* A click on the delete button of the dialog.
ConfirmClick ==
    /\ ~returned
    /\ view.dialog = "shown" /\ view.attached
    /\ IF Truthy(view.pendingDeleteId)
       THEN \E outcome \in WriteOutcomes :
               ViewFinish([deleteTodo(view.pendingDeleteId, outcome)
                              EXCEPT !.call = [input |-> "confirm", id |-> view.pendingDeleteId,
                                               op |-> "delete"]],
                          hideConfirmDialog(view))
       ELSE ViewOnly([op |-> "confirmClick"], view)

\* A click on the cancel button of the dialog.
CancelClick ==
    /\ ~returned
    /\ view.dialog = "shown" /\ view.attached
    /\ ViewOnly([op |-> "cancelClick"], hideConfirmDialog(view))

\* A click on the dialog outside its content.
BackdropClick ==
    /\ ~returned
    /\ view.dialog = "shown" /\ view.attached
    /\ ViewOnly([op |-> "backdropClick"], hideConfirmDialog(view))

\* TodoApp.destroy(): destroy() of the renderer, then of the manager.
AppDestroy ==
    /\ ~returned
    /\ view.app = "ready"
    /\ Finish(destroy)
    /\ view' = [rendererDestroy(view) EXCEPT !.app = "destroyed"]
    /\ history' = "destroyed"
    /\ UNCHANGED <<isAvailable, now, earlier, other>>

\* The user goes on after a click on a delete button; the record of the
\* click is kept until the next input has been handled.
RememberRequest ==
    /\ returned
    /\ call.op = "clickDelete"
    /\ earlier' = [todos |-> todos, call |-> call, ret |-> ret, pre |-> pre]
    /\ returned' = FALSE
    /\ call' = [op |-> "none"]
    /\ ret' = Undefined
    /\ events' = <<>>
    /\ seen' = <<>>
    /\ pre' = <<>>
    /\ preStored' = Absent
    /\ writes' = 0
    /\ delivered' = <<>>
    /\ UNCHANGED <<isAvailable, stored, todos, initialized, initPending, now, history,
                   listeners, view, other>>

Next ==
    \/ Initialize
    \/ InitializeResume
    \/ AddTodo(TextInputs)
    \/ ToggleTodo
    \/ DeleteTodo
    \/ UpdateTodo(UpdateInputs)
    \/ ClearAllTodos
    \/ BatchOperation
    \/ ImportData(ImportPayloads)
    \/ ImportExported
    \/ Destroy
    \/ Continue
    \/ Tick

Spec == Init /\ [][Next]_vars

\* The calls that carry a text, with the texts that are accepted, and the
\* round trip through exportData().
NextText ==
    \/ Initialize
    \/ InitializeResume
    \/ AddTodo(RichTexts)
    \/ UpdateTodo(TextUpdates)
    \/ ImportExported
    \/ Continue

SpecText == Init /\ [][NextText]_vars

\* The calls of importData, with the payloads it does not accept and one it
\* accepts, on a list that add has filled.
NextImport ==
    \/ Initialize
    \/ InitializeResume
    \/ AddTodo(TextInputs)
    \/ ImportData(ImportInputs)
    \/ Continue

SpecImport == Init /\ [][NextImport]_vars

\* The calls that edit one record, with a caller that keeps the record of a
\* call of toggle until the next call has returned, on a list that add and an import with a repeated id
\* have filled.
NextEdit ==
    \/ Initialize
    \/ InitializeResume
    \/ AddTodo(TextInputs)
    \/ ImportData({DuplicatePayload})
    \/ ToggleTodo
    \/ DeleteTodo
    \/ UpdateTodo(EditPatches)
    \/ Remember
    \/ Continue
    \/ Tick

SpecEdit == Init /\ [][NextEdit]_vars

\* The queries, on a list that add and toggle have filled.
NextQuery ==
    \/ Initialize
    \/ InitializeResume
    \/ AddTodo(QueryTexts)
    \/ ToggleTodo
    \/ SearchTodos
    \/ GetStats
    \/ Continue

SpecQuery == Init /\ [][NextQuery]_vars

\* Registrations of listeners, and add, whose notifications they hear.
NextListen ==
    \/ Initialize
    \/ InitializeResume
    \/ AddTodo(TextInputs)
    \/ On
    \/ Off
    \/ Continue

SpecListen == Init /\ [][NextListen]_vars

\* The application: its initialize(), then add, toggle and delete.
NextApp ==
    \/ AppInitialize
    \/ InitializeResume
    \/ AddTodo(TextInputs)
    \/ ToggleTodo
    \/ DeleteTodo
    \/ Continue
    \/ Tick

SpecApp == Init /\ [][NextApp]_vars

\* initialize() over the lists of LoadStores, then toggle and delete.
NextLoad ==
    \/ Initialize
    \/ InitializeResume
    \/ ToggleTodo
    \/ DeleteTodo
    \/ Continue
    \/ Tick

SpecLoad == InitLoad /\ [][NextLoad]_vars

\* add and update with texts that whitespace surrounds.
NextTrim ==
    \/ Initialize
    \/ InitializeResume
    \/ AddTodo(PaddedTexts)
    \/ UpdateTodo(PaddedUpdates)
    \/ Continue

SpecTrim == Init /\ [][NextTrim]_vars

\* Texts at and beyond the limits, through add, update, initialize and
\* importData.
InitLimit == InitWith(LimitPayloads)

NextLimit ==
    \/ Initialize
    \/ InitializeResume
    \/ AddTodo(LimitTexts)
    \/ UpdateTodo(LimitUpdates)
    \/ ImportData(LimitPayloads)
    \/ Continue

SpecLimit == InitLimit /\ [][NextLimit]_vars

\* The application and its view: initialize() of the app, the inputs of the
\* user, and destroy() of the app.
NextView ==
    \/ AppInitialize
    \/ InitializeResume
    \/ AppResume
    \/ ClickAdd
    \/ ClickToggle
    \/ ClickDelete
    \/ ConfirmClick
    \/ CancelClick
    \/ BackdropClick
    \/ AppDestroy
    \/ RememberRequest
    \/ Continue

SpecView == Init /\ [][NextView]_vars

\* Two pages over one localStorage, each with its TodoManager.
NextShared ==
    \/ Initialize
    \/ InitializeResume
    \/ AddTodo(TextInputs)
    \/ ToggleTodo
    \/ DeleteTodo
    \/ Switch
    \/ Continue

SpecShared == Init /\ [][NextShared]_vars

\* -------------------------------------------------------------- claims
\* The claims are stated over the record of the last call: while returned
\* holds, call, ret, events and writes describe it, pre and preStored are
\* the list and the store before it, todos and stored what it left.

\* The operations that change the list.
MutatingOps == {"add", "toggle", "delete", "update", "clearAll", "batch"}

\* The last call emitted this notification.
Emitted(event, type) == \E i \in 1..Len(events) : events[i] = Emit(event, type)

\* The last call attempted a write and the store refused it.
WriteFailed ==
    writes = 1 /\ \E i \in 1..Len(events) : events[i].event = "storage-error"

\* The last call attempted a write and the store took it.
WriteSucceeded == writes = 1 /\ ~WriteFailed

\* The failure value of each mutating operation.
FailureValues == {Null, Bool(FALSE), BatchResult(FALSE, 0)}

\* The record list of the persisted envelope; empty when there is none.
PersistedTodos(content) ==
    IF content.kind = "json" /\ IsJsonObject(Parse(content)) /\ HasTodoList(Parse(content))
    THEN Parse(content).todos
    ELSE <<>>

Ids(list) == {list[i].id : i \in 1..Len(list)}

\* C1: if the storage write fails during add, toggle, delete, update, batch
\* or clearAll on a Ready manager, getAll() after the call equals getAll()
\* before it, in every field of every record.
C1RollbackRestoresList ==
    (returned /\ initialized /\ call.op \in MutatingOps /\ WriteFailed)
        => getAllTodos = pre

\* C2: each mutating operation on a Ready manager whose list agreed with the
\* persisted envelope ends with the persisted list equal to the in-memory
\* list, or with the in-memory list equal to its value before the call and
\* an error notification emitted.
C2ConsistentOrRolledBack ==
    (returned /\ initialized /\ call.op \in MutatingOps
        /\ pre = PersistedTodos(preStored))
        => \/ todos = PersistedTodos(stored)
           \/ todos = pre /\ \E i \in 1..Len(events) : events[i].event = "error"

\* C3: in every reachable state no two records of the in-memory list have
\* the same id.
C3UniqueIds ==
    \A i, j \in 1..Len(todos) : i # j => todos[i].id # todos[j].id

\* A text of 1 to 200 characters without '<' or '>'.
ValidText(text) ==
    /\ IsString(text)
    /\ Length(text.v) >= MinLength
    /\ Length(text.v) <= MaxLength
    /\ \A i \in 1..Len(text.v) : text.v[i][1] \notin {"<", ">"}

\* C4: on a Ready manager, add of a text of 1 to 200 characters without '<'
\* or '>' whose write succeeds returns a record with an id no record of the
\* list carried, completed = false and createdAt = updatedAt, and the record
\* is in getAll() afterwards.
C4AddReturnsFreshRecord ==
    (returned /\ initialized /\ call.op = "add" /\ ValidText(call.text) /\ WriteSucceeded)
        => /\ ret.t = "object"
           /\ ret.v.id \notin Ids(pre)
           /\ ret.v.completed = Bool(FALSE)
           /\ ret.v.createdAt = ret.v.updatedAt
           /\ \E i \in 1..Len(getAllTodos) : getAllTodos[i] = ret.v

\* A text that is empty after trimming, longer than 200 characters, or that
\* contains '<' or '>'.
RejectedText(text) ==
    /\ IsString(text)
    /\ \/ Trim(text.v) = <<>>
       \/ Length(text.v) > MaxLength
       \/ \E i \in 1..Len(text.v) : text.v[i][1] \in {"<", ">"}

\* C5: on a Ready manager, add of a text that is empty after trimming,
\* longer than 200 characters or that contains '<' or '>' returns null, emits
\* a validation-error notification, attempts no storage write and leaves
\* getAll() and the store as they were.
C5AddRejectsText ==
    (returned /\ initialized /\ call.op = "add" /\ RejectedText(call.text))
        => /\ ret = Null
           /\ Emitted("validation-error", "add")
           /\ writes = 0
           /\ getAllTodos = pre
           /\ stored = preStored

\* add of a text with an angle bracket has returned, on a Ready manager whose
\* list is not empty.
C5AngleBracketRejected ==
    /\ returned /\ initialized /\ call.op = "add"
    /\ call.text = TextScript
    /\ pre # <<>>

\* C6: in every reachable state getAll() is ordered by createdAt from newest
\* to oldest, and a successful add leaves its record at index 0, ahead of the
\* records the list held.
C6NewestFirst ==
    /\ \A i \in 1..(Len(getAllTodos) - 1) :
          GetTime(getAllTodos[i].createdAt) >= GetTime(getAllTodos[i + 1].createdAt)
    /\ (returned /\ call.op = "add" /\ ret.t = "object")
          => getAllTodos = <<ret.v>> \o pre

\* C7: if the load of the persisted envelope throws, initialize() returns
\* false, leaves the manager Uninitialized and emits an error notification of
\* type initialization.
C7InitializeFailsOnThrow ==
    (returned /\ call.op = "initialized" /\ call.awaited = Bool(FALSE))
        => /\ ret = Bool(FALSE)
           /\ ~initialized
           /\ Emitted("error", "initialization")

\* C8: while the manager is Uninitialized, add, toggle, delete, update,
\* batch, clearAll and importData return their failure value and leave the
\* in-memory list and the persisted envelope unchanged.
C8UninitializedFailsFast ==
    (returned /\ ~initialized /\ call.op \in MutatingOps \cup {"import"})
        => /\ ret \in FailureValues
           /\ todos = pre
           /\ stored = preStored

\* C9, as stated: once destroy() has been called, a later call of
\* initialize() does not make the instance Ready again.
C9NeverReadyAfterDestroy == history = "reinitializing" => ~initialized

\* C9, amended: the manager becomes Ready only in the step in which a call of
\* initialize() completes, leaves Ready only in a step of destroy(), and
\* destroy() leaves it Uninitialized; destroy() does not retire the
\* instance.
C9Lifecycle ==
    [][/\ (~initialized /\ initialized') => call'.op = "initialized"
       /\ (initialized /\ ~initialized') => call'.op = "destroy"
       /\ (returned' /\ call'.op = "destroy") => ~initialized']_vars

\* A call of initialize() made after destroy() has completed, and the
\* instance is Ready.
C9ReadyAgain ==
    returned /\ call.op = "initialized" /\ history = "reinitializing" /\ initialized

\* C10: on a Ready manager importData(exportData()) leaves getAll()
\* unchanged: the same records with the same field values in the same order.
C10RoundTrip ==
    (returned /\ initialized /\ call.op = "import" /\ call.exported)
        => getAllTodos = pre

\* A parsed entry that lacks a non-empty string text.
LacksText(entry) ==
    \/ ~IsObject(entry)
    \/ ~IsString(entry.text)
    \/ entry.text.v = <<>>

\* A payload that is not parseable, whose record list is missing or not a
\* list, or in which an entry lacks a non-empty string text.
MalformedPayload(jsonData) ==
    \/ jsonData.kind # "json"
    \/ ~IsJsonObject(Parse(jsonData))
    \/ "todos" \notin DOMAIN Parse(jsonData)
    \/ \E i \in 1..Len(Parse(jsonData).todos) : LacksText(Parse(jsonData).todos[i])

\* C11: importData of a payload that is not parseable, whose record list is
\* missing or not a list, or in which an entry lacks a non-empty string text
\* returns false, attempts no write and leaves the in-memory list and the
\* persisted envelope unchanged.
C11ImportRejectsMalformed ==
    (returned /\ call.op = "import" /\ ~call.exported /\ MalformedPayload(call.jsonData))
        => /\ ret = Bool(FALSE)
           /\ writes = 0
           /\ getAllTodos = pre
           /\ stored = preStored

\* importData of a list whose second entry has an empty text has returned,
\* on a Ready manager whose list is not empty.
C11EmptyTextRejected ==
    /\ returned /\ initialized /\ call.op = "import"
    /\ call.jsonData = EmptyTextPayload
    /\ pre # <<>>

\* C12: importData is all-or-nothing: after it returns, the in-memory list
\* is unchanged or holds every record of the payload, and after a successful
\* import the in-memory list equals the persisted list.
C12ImportAllOrNothing ==
    (returned /\ call.op = "import" /\ ~call.exported
        /\ ~MalformedPayload(call.jsonData))
        => /\ \/ getAllTodos = pre
              \/ \A i \in 1..Len(Parse(call.jsonData).todos) :
                    Parse(call.jsonData).todos[i].id \in Ids(getAllTodos)
           /\ ret = Bool(TRUE) => getAllTodos = PersistedTodos(stored)

\* C13: in every reachable state every record of the in-memory list has
\* updatedAt not earlier than createdAt.
C13UpdatedNotBeforeCreated ==
    \A i \in 1..Len(todos) :
        GetTime(todos[i].updatedAt) >= GetTime(todos[i].createdAt)

\* C14: in every reachable state the stored text of every record is
\* non-empty.
C14TextNeverEmpty ==
    \A i \in 1..Len(todos) : IsString(todos[i].text) /\ Length(todos[i].text.v) >= 1

\* C15: with storage writes succeeding, two consecutive calls of toggle(id)
\* on a record of the list restore its completed value; the second call
\* sets updatedAt to the current time, not earlier than the time the first
\* call set; no other record and no other field changes.
C15ToggleTwiceRestores ==
    (returned /\ initialized /\ call.op = "toggle" /\ ret = Bool(TRUE)
        /\ earlier.call.op = "toggle" /\ earlier.call.id = call.id
        /\ earlier.ret = Bool(TRUE))
        => /\ pre = earlier.todos
           /\ Len(getAllTodos) = Len(earlier.pre)
           /\ \A j \in 1..Len(getAllTodos) :
                 IF j = FindIndex(earlier.pre, call.id)
                 THEN /\ getAllTodos[j].completed = earlier.pre[j].completed
                      /\ getAllTodos[j].updatedAt = ToISOString(now)
                      /\ GetTime(getAllTodos[j].updatedAt) >= GetTime(pre[j].updatedAt)
                      /\ getAllTodos[j].id = earlier.pre[j].id
                      /\ getAllTodos[j].text = earlier.pre[j].text
                      /\ getAllTodos[j].createdAt = earlier.pre[j].createdAt
                 ELSE getAllTodos[j] = earlier.pre[j]

\* toggle(id) has returned true twice in a row, at two different
\* milliseconds, on a list of two records.
C15ToggledTwice ==
    /\ returned /\ initialized /\ call.op = "toggle" /\ ret = Bool(TRUE)
    /\ earlier.call.op = "toggle" /\ earlier.call.id = call.id
    /\ earlier.ret = Bool(TRUE)
    /\ Len(getAllTodos) = 2
    /\ \E j \in 1..2 : GetTime(getAllTodos[j].updatedAt) > GetTime(pre[j].updatedAt)

\* C17: on a Ready manager, toggle, delete and update called with an id
\* that is not in the list return false, emit a not-found notification,
\* attempt no storage write and leave the in-memory list and the store as
\* they were.
C17UnknownIdNotFound ==
    (returned /\ initialized /\ call.op \in {"toggle", "delete", "update"}
        /\ call.id \notin Ids(pre))
        => /\ ret = Bool(FALSE)
           /\ Emitted("not-found", call.op)
           /\ writes = 0
           /\ getAllTodos = pre
           /\ stored = preStored

\* update of an id that is not in the list, with updates that are not valid,
\* has returned on a Ready manager whose list is not empty.
C17UnknownIdUpdated ==
    /\ returned /\ initialized /\ call.op = "update"
    /\ call.id = UnknownId
    /\ call.updates = Obj([text |-> TextScript])
    /\ pre # <<>>

\* Updates that name a field other than text and completed, or carry a text
\* that is not valid or a completed that is no boolean.
InvalidPatch(updates) ==
    /\ updates.t = "object"
    /\ \/ DOMAIN updates.v \ {"text", "completed"} # {}
       \/ /\ "text" \in DOMAIN updates.v
          /\ ~IsString(updates.v.text) \/ RejectedText(updates.v.text)
       \/ /\ "completed" \in DOMAIN updates.v
          /\ updates.v.completed.t # "boolean"

\* C18: on a Ready manager, update of a record of the list with updates that
\* are not valid emits a validation-error notification of type update,
\* returns false, attempts no storage write and leaves every record
\* unchanged.
C18InvalidPatchRejected ==
    (returned /\ initialized /\ call.op = "update" /\ call.id \in Ids(pre)
        /\ InvalidPatch(call.updates))
        => /\ ret = Bool(FALSE)
           /\ Emitted("validation-error", "update")
           /\ writes = 0
           /\ getAllTodos = pre
           /\ stored = preStored

\* The number of records of the list before the call that the call changed
\* or removed.
ChangedCount ==
    IF Len(getAllTodos) = Len(pre)
    THEN Cardinality({i \in 1..Len(pre) : getAllTodos[i] # pre[i]})
    ELSE Len(pre) - Len(getAllTodos)

\* The ids a call of batch names.
BatchIds == {call.ids.v[k] : k \in 1..Len(call.ids.v)}

\* C16: on a Ready manager, batch(ids, action) reports as its count the
\* number of records whose state changed; for complete and incomplete, a
\* record whose id is not among ids or that already was in the target state
\* is as it was before the call.
C16BatchCountsChanges ==
    (returned /\ initialized /\ call.op = "batch")
        => /\ ret.v.processed = ChangedCount
           /\ call.action \in {"complete", "incomplete"}
                => \A i \in 1..Len(pre) :
                      (\/ pre[i].id \notin BatchIds
                       \/ pre[i].completed = Bool(call.action = "complete"))
                          => getAllTodos[i] = pre[i]

\* The records of a list whose text contains the query, compared without
\* regard to case, in the order of the list.
RECURSIVE Containing(_, _)
Containing(list, query) ==
    IF list = <<>> THEN <<>>
    ELSE (IF Includes(ToLowerCase(Head(list).text.v), ToLowerCase(query))
          THEN <<Head(list)>> ELSE <<>>)
         \o Containing(Tail(list), query)

\* C19: search(query) returns, in list order, exactly the records whose text
\* contains the query case-insensitively, and the empty list for an empty
\* query or one that is no string.
C19SearchReturnsMatches ==
    (returned /\ call.op = "search")
        => ret = Obj(IF IsString(call.query) /\ call.query.v # <<>>
                     THEN Containing(getAllTodos, call.query.v)
                     ELSE <<>>)

\* C20: getStats() reports as total the length of the list and completed and
\* pending counts that add up to it; on the empty list total, completed,
\* pending and completionRate are 0.
C20StatsAddUp ==
    (returned /\ call.op = "stats")
        => /\ ret.v.total = Len(getAllTodos)
           /\ ret.v.completed + ret.v.pending = ret.v.total
           /\ getAllTodos = <<>>
                => /\ ret.v.total = 0 /\ ret.v.completed = 0
                   /\ ret.v.pending = 0 /\ ret.v.completionRate = 0

\* getStats has returned on a list of one completed and one pending record.
C20StatsOfMixedList ==
    /\ returned /\ call.op = "stats"
    /\ Len(getAllTodos) = 2
    /\ \E i, j \in 1..2 : getAllTodos[i].completed.v /\ ~getAllTodos[j].completed.v

\* The registrations of ls for one event, in registration order, as
\* deliveries of that event.
RECURSIVE RegisteredFor(_, _)
RegisteredFor(ls, event) ==
    IF ls = <<>> THEN <<>>
    ELSE (IF Head(ls).event = event THEN <<Head(ls)>> ELSE <<>>)
         \o RegisteredFor(Tail(ls), event)

\* What the notifications evs of the manager owe the registrations ls.
RECURSIVE Owed(_, _)
Owed(ls, evs) ==
    IF evs = <<>> THEN <<>>
    ELSE (IF Head(evs).target = "manager"
          THEN RegisteredFor(ls, Head(evs).event) ELSE <<>>)
         \o Owed(ls, Tail(evs))

\* C21: each notification of a call is delivered during the call to all the
\* listeners registered for its event, in registration order, whether or
\* not an earlier listener threw, and the call does not end with the
\* exception of a listener.
C21DeliveredInOrder ==
    (returned /\ call.op \in {"add", "initialize", "initialized"})
        => /\ delivered = Owed(listeners, events)
           /\ ret # Exception

\* add has notified two listeners of todo-added, the first of which threw.
C21LaterListenerInvoked ==
    /\ returned /\ call.op = "add"
    /\ Len(listeners) = 3
    /\ listeners[1] = [event |-> "todo-added", listener |-> "g"]
    /\ listeners[2] = [event |-> "error", listener |-> "f"]
    /\ listeners[3] = [event |-> "todo-added", listener |-> "f"]
    /\ Emitted("todo-added", "")
    /\ Len(delivered) = 2

\* The notifications that tell of a failure.
FailureEvents == {"error", "validation-error", "not-found"}

\* C22: every call of add, toggle, delete, update, batch, clearAll or
\* importData that returns its failure value has emitted an error,
\* validation-error or not-found notification.
C22FailureNotified ==
    (returned /\ call.op \in MutatingOps \cup {"import"} /\ ret \in FailureValues)
        => \E i \in 1..Len(events) :
              events[i].target = "manager" /\ events[i].event \in FailureEvents

\* C23: no call of add, toggle, delete, update, batch, clearAll, importData
\* or initialize ends with an exception thrown to its caller.
C23NeverThrows ==
    (returned /\ call.op \in MutatingOps \cup {"import", "initialize", "initialized"})
        => ret # Exception

\* C24: when the availability probe failed at the construction of the
\* StorageManager, the construction has emitted one notification of it.
C24FallbackSurfaced ==
    (call.op = "new" /\ ~isAvailable) => Len(events) = 1

\* C25: when localStorage is unavailable as the application starts,
\* initialize() of the application does not fail.
C25StartsWithoutStorage ==
    (returned /\ call.op = "appInitialize" /\ call.probe # "ok")
        => ret # Bool(FALSE)

\* The notifications of a mutating operation that has succeeded.
SuccessEvents ==
    {"todo-added", "todo-toggled", "todo-deleted", "todo-updated",
     "all-todos-cleared", "batch-operation"}

\* C26: a mutating operation on a Ready manager attempts at most one storage
\* write; it emits a success notification only when the write succeeded;
\* when the write failed it emits the failure notification, and every
\* failure notification, of the manager or of the StorageManager, is
\* emitted on the list as it was before the call, the revert applied.
C26NotifiedAfterRevert ==
    (returned /\ initialized /\ call.op \in MutatingOps)
        => /\ writes <= 1
           /\ (\E i \in 1..Len(events) : events[i].event \in SuccessEvents)
                 => WriteSucceeded
           /\ WriteFailed => Emitted("error", "save")
           /\ \A i \in 1..Len(events) :
                 events[i].event \in {"storage-error", "error"} => seen[i] = pre

\* The entry passes validation on its own.
PassesValidation(entry) ==
    /\ IsObject(entry)
    /\ ~validateTodoData(entry, now).threw
    /\ validateTodoData(entry, now).isValid

\* The persisted entries that pass validation on their own, in order.
RECURSIVE ValidEntries(_)
ValidEntries(entries) ==
    IF entries = <<>> THEN <<>>
    ELSE (IF PassesValidation(Head(entries)) THEN <<Head(entries)>> ELSE <<>>)
         \o ValidEntries(Tail(entries))

\* C27: after the load of initialize(), the in-memory list holds one record
\* for each persisted entry that passes validation on its own, with that
\* entry's id, and no other, newest createdAt first.
C27LoadKeepsValidRecords ==
    (returned /\ call.op = "initialize")
        => /\ Len(getAllTodos) = Len(ValidEntries(PersistedTodos(preStored)))
           /\ Ids(getAllTodos) = Ids(ValidEntries(PersistedTodos(preStored)))
           /\ \A i, j \in 1..Len(getAllTodos) :
                 i < j => GetTime(getAllTodos[i].createdAt)
                             >= GetTime(getAllTodos[j].createdAt)

\* C28: after the load of initialize() over a persisted list of valid
\* entries, of several entries with one id only the first is in the
\* in-memory list.
C28FirstOfSameIdKept ==
    (returned /\ call.op = "initialize"
        /\ ValidEntries(PersistedTodos(preStored)) = PersistedTodos(preStored))
        => \A k \in 1..Len(PersistedTodos(preStored)) :
              IF k \in DuplicateIndexes(PersistedTodos(preStored))
              THEN \A i \in 1..Len(getAllTodos) :
                      ~(/\ getAllTodos[i].id = PersistedTodos(preStored)[k].id
                        /\ getAllTodos[i].completed
                              = PersistedTodos(preStored)[k].completed)
              ELSE \E i \in 1..Len(getAllTodos) :
                      /\ getAllTodos[i].id = PersistedTodos(preStored)[k].id
                      /\ getAllTodos[i].completed
                            = PersistedTodos(preStored)[k].completed

\* C29: when the persisted list is the in-memory list, as a successful
\* mutating operation leaves it, the load of initialize(), which reads
\* nothing but the store, yields that list again: the same records with the
\* same field values.
C29LoadYieldsSavedList ==
    (returned /\ call.op = "initialize" /\ pre # <<>>
        /\ PersistedTodos(preStored) = pre)
        => getAllTodos = pre

\* C30: if the storage write at the end of batch(ids, action) fails, the
\* in-memory list is the list before the call: every record at its position
\* with its completed flag and its updatedAt.
C30BatchRestoresSnapshot ==
    (returned /\ initialized /\ call.op = "batch" /\ WriteFailed)
        => /\ Len(getAllTodos) = Len(pre)
           /\ \A i \in 1..Len(pre) :
                 /\ getAllTodos[i].id = pre[i].id
                 /\ getAllTodos[i].completed = pre[i].completed
                 /\ getAllTodos[i].updatedAt = pre[i].updatedAt

\* The call of batch names a record that is not in the target state of its
\* action: the first record of an id, which is the one the call looks up.
BatchChanges ==
    /\ call.action \in {"delete", "complete", "incomplete"}
    /\ \E k \in 1..Len(call.ids.v) :
          /\ FindIndex(pre, call.ids.v[k]) # 0
          /\ \/ call.action = "delete"
             \/ pre[FindIndex(pre, call.ids.v[k])].completed
                   # Bool(call.action = "complete")

\* C31: batch on a Ready manager attempts exactly one storage write when it
\* changes at least one record; when it changes none it attempts no write,
\* leaves the list as it was and emits no notification of a failed save.
C31BatchWritesOnce ==
    (returned /\ initialized /\ call.op = "batch")
        => IF BatchChanges
           THEN writes = 1
           ELSE /\ writes = 0
                /\ getAllTodos = pre
                /\ ~Emitted("error", "save")

\* C32: a call of delete(id) that returns true removes one record, which
\* has that id: the list is one shorter, every other record is there
\* with its field values, in the order they had, and the persisted list is
\* the in-memory list.
C32DeleteRemovesOne ==
    (returned /\ call.op = "delete" /\ ret = Bool(TRUE))
        => /\ Len(getAllTodos) = Len(pre) - 1
           /\ \E i \in 1..Len(pre) :
                 /\ pre[i].id = call.id
                 /\ \A j \in 1..Len(getAllTodos) :
                       getAllTodos[j] = pre[IF j < i THEN j ELSE j + 1]
           /\ PersistedTodos(stored) = getAllTodos

\* delete has removed the first of two records.
C32FirstOfTwoDeleted ==
    /\ returned /\ call.op = "delete" /\ ret = Bool(TRUE)
    /\ Len(pre) = 2
    /\ pre[1].id = call.id
    /\ pre[2].id # call.id

\* The id and the createdAt of each record of a list, in order.
Keys(list) == [i \in 1..Len(list) |-> <<list[i].id, list[i].createdAt>>]

\* a is b with some of its elements left out.
RECURSIVE IsSubsequence(_, _)
IsSubsequence(a, b) ==
    IF a = <<>> THEN TRUE
    ELSE IF b = <<>> THEN FALSE
    ELSE IF Head(a) = Head(b) THEN IsSubsequence(Tail(a), Tail(b))
    ELSE IsSubsequence(a, Tail(b))

\* C33: a call of toggle, update, or batch with complete or incomplete,
\* whether its write succeeded or was rolled back, leaves every record with
\* its id and its createdAt; so does add with the records that were there,
\* and delete, clearAll and batch with delete with the records they leave.
C33IdAndCreatedAtKept ==
    (returned /\ initialized /\ call.op \in MutatingOps)
        => /\ (\/ call.op \in {"toggle", "update"}
               \/ call.op = "batch" /\ call.action # "delete")
                 => Keys(getAllTodos) = Keys(pre)
           /\ call.op = "add"
                 => \/ Keys(getAllTodos) = Keys(pre)
                    \/ Keys(Tail(getAllTodos)) = Keys(pre)
           /\ (\/ call.op \in {"delete", "clearAll"}
               \/ call.op = "batch" /\ call.action = "delete")
                 => IsSubsequence(Keys(getAllTodos), Keys(pre))

\* update was called for a record of the list with a new id among its
\* updates.
C33UpdateNamesId ==
    /\ returned /\ initialized /\ call.op = "update"
    /\ call.updates.t = "object"
    /\ "id" \in DOMAIN call.updates.v
    /\ \E i \in 1..Len(pre) : pre[i].id = call.id

\* A text that has 1 to 200 characters once trimmed, none of them '<' or '>'.
ValidOnceTrimmed(text) ==
    /\ IsString(text)
    /\ Length(Trim(text.v)) >= MinLength
    /\ Length(Trim(text.v)) <= MaxLength
    /\ \A i \in 1..Len(text.v) : text.v[i][1] \notin {"<", ">"}

\* C34: on a Ready manager, add of a text that has 1 to 200 characters once
\* trimmed, and update of a record of the list with such a text, pass
\* validation, whatever the length of the text before trimming: no
\* validation-error is emitted and the write is attempted.
C34TrimmedLengthAccepted ==
    /\ (returned /\ initialized /\ call.op = "add" /\ ValidOnceTrimmed(call.text))
          => ~Emitted("validation-error", "add") /\ writes = 1
    /\ (returned /\ initialized /\ call.op = "update"
           /\ call.updates.t = "object"
           /\ DOMAIN call.updates.v = {"text"}
           /\ ValidOnceTrimmed(call.updates.v.text)
           /\ \E i \in 1..Len(pre) : pre[i].id = call.id)
          => ~Emitted("validation-error", "update") /\ writes = 1

\* C35: in every reachable state the text of every record of the in-memory
\* list is a string of at most 200 characters, none of them '<' or '>'.
C35TextsWithinLimits ==
    \A i \in 1..Len(getAllTodos) :
        /\ IsString(getAllTodos[i].text)
        /\ Length(getAllTodos[i].text.v) <= MaxLength
        /\ \A k \in 1..Len(getAllTodos[i].text.v) :
              getAllTodos[i].text.v[k][1] \notin {"<", ">"}

\* The list holds a record whose text was cut at 200 characters: it came
\* from a text of 200 characters that ends in '&'.
C35TextCutAtLimit ==
    \E i \in 1..Len(getAllTodos) :
        /\ Length(getAllTodos[i].text.v) = MaxLength
        /\ getAllTodos[i].text.v[Len(getAllTodos[i].text.v)][1] = "&"

\* C36: the handlers of the add button and the input are bound, and the
\* view's listeners registered with the manager, only while the manager is
\* initialized; and no call of add, toggle or delete that a handler of the
\* view makes reaches a manager that is not initialized.
C36InputAfterReady ==
    /\ (view.bound \/ listeners # <<>>) => initialized
    /\ (returned /\ call.op \in {"add", "toggle", "delete"} /\ "input" \in DOMAIN call)
          => initialized

\* C38: through the view a record is deleted only by the delete button of
\* the dialog. A click on the delete button of an item changes neither the
\* list nor the store: it sets pendingDeleteId to the id of the item and
\* shows the dialog. The delete button of the dialog deletes the id of the
\* last such click, and with success one record. The cancel button and the
\* backdrop change neither the list nor the store. Whenever the dialog is
\* not shown, pendingDeleteId is cleared.
C38DeleteOnlyConfirmed ==
    /\ (returned /\ call.op = "clickDelete")
          => /\ getAllTodos = pre /\ stored = preStored /\ writes = 0
             /\ view.pendingDeleteId = call.id
             /\ view.dialog = "shown"
    /\ (returned /\ call.op = "delete" /\ "input" \in DOMAIN call)
          => /\ call.input = "confirm"
             /\ earlier.call.op = "clickDelete" => call.id = earlier.call.id
             /\ ret = Bool(TRUE) => Len(getAllTodos) = Len(pre) - 1
    /\ (returned /\ call.op \in {"cancelClick", "backdropClick"})
          => getAllTodos = pre /\ stored = preStored /\ writes = 0
    /\ (returned /\ Len(getAllTodos) < Len(pre))
          => \/ call.op = "destroy"
             \/ call.op = "delete" /\ "input" \in DOMAIN call
    /\ view.dialog # "shown" => ~Truthy(view.pendingDeleteId)

\* The delete button of the dialog has deleted the record of the last click
\* on a delete button, from a list of two records.
C38ConfirmedAfterRequest ==
    /\ returned /\ call.op = "delete" /\ "input" \in DOMAIN call
    /\ ret = Bool(TRUE)
    /\ earlier.call.op = "clickDelete"
    /\ Len(pre) = 2
    /\ view.dialog = "hidden"

\* C37: with two TodoManagers over one localStorage, after every call of
\* add, toggle, delete, update, clearAll or batch whose write succeeded the
\* persisted list is the list of the manager that made the call, whatever
\* the store held before the call.
C37LastWriterWins ==
    (returned /\ initialized /\ call.op \in MutatingOps /\ WriteSucceeded)
        => PersistedTodos(stored) = getAllTodos

\* A write has succeeded over a store that held what the other manager
\* wrote: a list that was neither this manager's list nor what it had
\* loaded.
C37OverwroteOther ==
    /\ returned /\ initialized /\ call.op \in MutatingOps /\ WriteSucceeded
    /\ other.initialized
    /\ PersistedTodos(preStored) = other.todos
    /\ other.todos # pre
    /\ other.todos # <<>>
    /\ PersistedTodos(stored) # other.todos

====
